---- MODULE Spec2Model ----
(***************************************************************************)
(* Model of the QwenChat2Api gateway: the identity pool                    *)
(* (lib/identity-pool.js), the token helpers of lib/config.js it uses and  *)
(* the retry loop of POST /v1/chat/completions (main.js).                  *)
(*                                                                         *)
(* Time is counted in minutes.  Date.now() is `now`; it is always          *)
(* positive, so the JavaScript null of a timestamp field is modelled by 0  *)
(* (both are falsy in the tests the code makes).                           *)
(***************************************************************************)
EXTENDS Integers, Sequences, FiniteSets, TLC

\* ---------------------------------------------------------------- bounds
MaxTime == 7
MaxFail == 6
MaxTimeTwo == 2
MaxFailTwo == 3
MaxFailThree == 5
MaxTimeThree == 6
MaxTimeRenew == 3
MaxFailRenew == 3
NumReqs == 2
MaxRecords == 3
MaxRecordsXf == 3
BlockSize == 50000
UpstreamErrorStatus == 429
ErrReqs == 1
MaxFailFair == 3
MaxTimeFair == 3
MaxFailAtom == 3
MaxMsgs == 2
MaxImages == 3
MaxDim == 12

\* ------------------------------------------------------ program constants
DOWN_THRESHOLD == 5
DEGRADED_THRESHOLD == 3
DOWN_RETRY_DELAY == 5
DEGRADED_RETRY_DELAY == 2
oneDayInMs == 1440
maxRetries == 2
MAX_BUFFER_SIZE == 100000

HEALTHY == "healthy"
DEGRADED == "degraded"
DOWN == "down"
IDENTITY_STATUS == {HEALTHY, DEGRADED, DOWN}

\* null of a timestamp field, null token, null identity
Null == 0
NoToken == -1
NoIdentity == 0
Legacy == -1
NoError == "none"

\* A token is modelled by the `exp` claim of its JWT payload (0: the payload
\* has no exp or the token cannot be decoded).
SoonExp == 1
NearExp == MaxTime + 1
FarExp == MaxTime + oneDayInMs + 1
TokenExps == {0, SoonExp, NearExp, FarExp}
TokenExpsTwo == {SoonExp, NearExp, FarExp}
TokenExpsThree == {FarExp}

VARIABLES
    now,            \* Date.now()
    identities,     \* IdentityPool.identities
    currentIndex,   \* IdentityPool.currentIndex
    initialized,    \* IdentityPool.initialized
    refreshing,     \* a refreshExpiredTokens() call is awaiting its exchanges
    refreshResults, \* the `results` of that call, per identity
    exchangeOk,     \* identities whose exchange succeeded in that call
    lastOp,         \* the last pool operation and what it returned
    picks,          \* history: results of the latest consecutive Select
                    \* steps made while a pool of two had both identities
                    \* available
    reqs            \* the chat-completion requests being handled

vars == <<now, identities, currentIndex, initialized, refreshing,
          refreshResults, exchangeOk, lastOp, picks, reqs>>

poolVars == <<identities, currentIndex, initialized, refreshing,
              refreshResults, exchangeOk, picks>>

Max(a, b) == IF a >= b THEN a ELSE b

Op(op, id, ret) == [op |-> op, id |-> id, ret |-> ret]

\* ------------------------------------------------------------- lib/config
isTokenExpired(token) == token = 0 \/ token < now

getTokenExpiryTime(token) == IF token = 0 THEN Null ELSE token

getTokenRemainingTime(token) ==
    IF getTokenExpiryTime(token) = Null THEN 0
    ELSE Max(0, getTokenExpiryTime(token) - now)

\* --------------------------------------------------------------- Identity
NewIdentity ==
    [token |-> NoToken, tokenExp |-> Null, status |-> HEALTHY,
     failCount |-> 0, lastUsedAt |-> Null, nextRetryAt |-> Null,
     lastError |-> NoError]

isAvailable(id) ==
    IF id.status = DOWN THEN FALSE
    ELSE IF id.nextRetryAt # Null /\ now < id.nextRetryAt THEN FALSE
    ELSE IF id.token = NoToken \/ isTokenExpired(id.token) THEN FALSE
    ELSE TRUE

\* markFailure with the thresholds compared by > instead of >=.
markFailure_Late(id, error) ==
    LET n == id.failCount + 1
        base == [id EXCEPT !.failCount = n, !.lastError = error]
    IN  IF n > DOWN_THRESHOLD
        THEN [base EXCEPT !.status = DOWN,
                          !.nextRetryAt = now + DOWN_RETRY_DELAY]
        ELSE IF n > DEGRADED_THRESHOLD
        THEN [base EXCEPT !.status = DEGRADED,
                          !.nextRetryAt = now + DEGRADED_RETRY_DELAY]
        ELSE base

markFailure(id, error) ==
    LET n == id.failCount + 1
        base == [id EXCEPT !.failCount = n, !.lastError = error]
    IN  IF n >= DOWN_THRESHOLD
        THEN [base EXCEPT !.status = DOWN,
                          !.nextRetryAt = now + DOWN_RETRY_DELAY]
        ELSE IF n >= DEGRADED_THRESHOLD
        THEN [base EXCEPT !.status = DEGRADED,
                          !.nextRetryAt = now + DEGRADED_RETRY_DELAY]
        ELSE base

\* markSuccess that recovers without asking isAvailable.
markSuccess_AlwaysRecover(id) ==
    LET dec == IF id.failCount > 0
               THEN [id EXCEPT !.failCount = Max(0, id.failCount - 1)]
               ELSE id
        rec == IF dec.status # HEALTHY
               THEN [dec EXCEPT !.status = HEALTHY, !.nextRetryAt = Null]
               ELSE dec
    IN  [rec EXCEPT !.lastUsedAt = now]

\* markSuccess that recovers the status but keeps nextRetryAt.
markSuccess_KeepRetryAt(id) ==
    LET dec == IF id.failCount > 0
               THEN [id EXCEPT !.failCount = Max(0, id.failCount - 1)]
               ELSE id
        rec == IF dec.status # HEALTHY /\ isAvailable(dec)
               THEN [dec EXCEPT !.status = HEALTHY]
               ELSE dec
    IN  [rec EXCEPT !.lastUsedAt = now]

markSuccess(id) ==
    LET dec == IF id.failCount > 0
               THEN [id EXCEPT !.failCount = Max(0, id.failCount - 1)]
               ELSE id
        rec == IF dec.status # HEALTHY /\ isAvailable(dec)
               THEN [dec EXCEPT !.status = HEALTHY, !.nextRetryAt = Null]
               ELSE dec
    IN  [rec EXCEPT !.lastUsedAt = now]

updateToken(id, token) ==
    [id EXCEPT !.token = token, !.tokenExp = getTokenExpiryTime(token)]

\* ----------------------------------------------------------- IdentityPool
\* The outcome of getTokenFromCookie: the token obtained, or ExchangeFailed
\* (success false, no newToken, or a throw).
ExchangeFailed == NoToken
ExchangeOutcomes(exps) == {ExchangeFailed} \cup exps

\* The callback of initialize without the status assignment of its failure
\* branch.
InitIdentity_NoDegrade(outcome) ==
    IF outcome = ExchangeFailed
    THEN markFailure(NewIdentity, "error")
    ELSE updateToken(NewIdentity, outcome)

InitIdentity(outcome) ==
    IF outcome = ExchangeFailed
    THEN markFailure([NewIdentity EXCEPT !.status = DEGRADED], "error")
    ELSE updateToken(NewIdentity, outcome)

Indices(ids) == [i \in 1..Len(ids) |-> i]

availableIdentities(ids) ==
    SelectSeq(Indices(ids), LAMBDA i : isAvailable(ids[i]))

allIdentities(ids) ==
    SelectSeq(Indices(ids), LAMBDA i : ids[i].token # NoToken)

\* getAvailableIdentity taking the round-robin turn among all the token
\* holders instead of the available identities.
getAvailableIdentity_IgnoreHealth(ids, cur) ==
    LET all == SelectSeq([i \in 1..Len(ids) |-> i],
                         LAMBDA i : ids[i].token # NoToken)
    IN  IF Len(ids) = 0 \/ Len(all) = 0
        THEN [id |-> NoIdentity, cur |-> cur, degraded |-> FALSE]
        ELSE [id |-> all[(cur % Len(all)) + 1],
              cur |-> (cur + 1) % Len(all), degraded |-> FALSE]

\* getAvailableIdentity that does not advance currentIndex.
getAvailableIdentity_NoAdvance(ids, cur) ==
    LET avail == SelectSeq([i \in 1..Len(ids) |-> i],
                           LAMBDA i : isAvailable(ids[i]))
        all == SelectSeq([i \in 1..Len(ids) |-> i],
                         LAMBDA i : ids[i].token # NoToken)
    IN  IF Len(ids) = 0
        THEN [id |-> NoIdentity, cur |-> cur, degraded |-> FALSE]
        ELSE IF Len(avail) = 0
        THEN IF Len(all) = 0
             THEN [id |-> NoIdentity, cur |-> cur, degraded |-> FALSE]
             ELSE [id |-> all[(cur % Len(all)) + 1], cur |-> cur,
                   degraded |-> TRUE]
        ELSE [id |-> avail[(cur % Len(avail)) + 1], cur |-> cur,
              degraded |-> FALSE]

\* getAvailableIdentity without the degraded branch.
getAvailableIdentity_NoFallback(ids, cur) ==
    LET avail == SelectSeq([i \in 1..Len(ids) |-> i],
                           LAMBDA i : isAvailable(ids[i]))
    IN  IF Len(ids) = 0 \/ Len(avail) = 0
        THEN [id |-> NoIdentity, cur |-> cur, degraded |-> FALSE]
        ELSE [id |-> avail[(cur % Len(avail)) + 1],
              cur |-> (cur + 1) % Len(avail), degraded |-> FALSE]

\* getAvailableIdentity: the identity returned (NoIdentity for null), the
\* new round-robin index and whether the degraded branch was taken.
getAvailableIdentity(ids, cur) ==
    LET avail == availableIdentities(ids)
        all == allIdentities(ids)
    IN  IF Len(ids) = 0
        THEN [id |-> NoIdentity, cur |-> cur, degraded |-> FALSE]
        ELSE IF Len(avail) = 0
        THEN IF Len(all) = 0
             THEN [id |-> NoIdentity, cur |-> cur, degraded |-> FALSE]
             ELSE [id |-> all[(cur % Len(all)) + 1], cur |-> cur,
                   degraded |-> TRUE]
        ELSE [id |-> avail[(cur % Len(avail)) + 1],
              cur |-> (cur + 1) % Len(avail), degraded |-> FALSE]

\* Bookkeeping of the selections of a two-identity pool (see `picks`).
NextPicks(ids, sel) ==
    IF Len(ids) = 2 /\ Len(availableIdentities(ids)) = 2
    THEN (IF Len(picks) = 4 THEN Tail(picks) ELSE picks) \o <<sel>>
    ELSE <<>>

\* The refresh test without the 24 h rule.
needsRefresh_ExpiredOnly(id) ==
    id.token = NoToken \/ isTokenExpired(id.token)

needsRefresh(id) ==
    IF id.token = NoToken \/ isTokenExpired(id.token) THEN TRUE
    ELSE getTokenRemainingTime(id.token) < oneDayInMs

refreshedCount(results) ==
    Cardinality({i \in DOMAIN results : results[i] = "true"})

\* ---------------------------------------------------------------- actions
InitPool ==
    /\ now = 1
    /\ identities = <<>>
    /\ currentIndex = 0
    /\ initialized = FALSE
    /\ refreshing = FALSE
    /\ refreshResults = <<>>
    /\ exchangeOk = {}
    /\ lastOp = Op("new", NoIdentity, 0)
    /\ picks = <<>>

\* IdentityPool.initialize, awaited by main.js before the server listens
\* (main.js calls it when more than one cookie is configured).  `outcomes`
\* are the sequences of exchange outcomes, one outcome per cookie.
Initialize(outcomes) ==
    /\ ~initialized
    /\ reqs = <<>>
    /\ \E outcome \in outcomes :
          /\ identities' = [i \in 1..Len(outcome) |-> InitIdentity(outcome[i])]
          /\ lastOp' = Op("initialize", NoIdentity, Len(outcome))
    /\ initialized' = TRUE
    /\ UNCHANGED <<now, currentIndex, refreshing, refreshResults,
                   exchangeOk, picks, reqs>>

\* One call of identityPool.getAvailableIdentity().
Select ==
    /\ initialized
    /\ LET r == getAvailableIdentity(identities, currentIndex)
       IN  /\ currentIndex' = r.cur
           /\ lastOp' = Op("select", r.id, IF r.degraded THEN 1 ELSE 0)
           /\ picks' = NextPicks(identities, r.id)
    /\ UNCHANGED <<now, identities, initialized, refreshing,
                   refreshResults, exchangeOk, reqs>>

\* identityPool.markIdentityFailure(identity, error) by a caller that holds
\* an identity it got from getAvailableIdentity (such an identity has a
\* token).
MarkIdentityFailure(i, maxFail) ==
    /\ identities[i].token # NoToken
    /\ identities[i].failCount < maxFail
    /\ identities' = [identities EXCEPT ![i] = markFailure(@, "error")]
    /\ lastOp' = Op("markFailure", i, 0)
    /\ UNCHANGED <<now, currentIndex, initialized, refreshing,
                   refreshResults, exchangeOk, picks, reqs>>

\* identityPool.markIdentitySuccess(identity), same callers.
MarkIdentitySuccess(i) ==
    /\ identities[i].token # NoToken
    /\ identities' = [identities EXCEPT ![i] = markSuccess(@)]
    /\ lastOp' = Op("markSuccess", i, 0)
    /\ UNCHANGED <<now, currentIndex, initialized, refreshing,
                   refreshResults, exchangeOk, picks, reqs>>

\* refreshExpiredTokens up to its awaits: the map callback decides for every
\* identity whether it is refreshed; the identities that are not yield
\* false.  With nothing to refresh the call returns 0 at once.
RefreshStart ==
    /\ initialized
    /\ ~refreshing
    /\ LET res == [i \in 1..Len(identities) |->
                     IF needsRefresh(identities[i]) THEN "pending"
                     ELSE "false"]
           done == \A i \in DOMAIN res : res[i] # "pending"
       IN  /\ refreshResults' = IF done THEN <<>> ELSE res
           /\ refreshing' = ~done
           /\ lastOp' = Op("refreshStart", NoIdentity, refreshedCount(res))
    /\ exchangeOk' = {}
    /\ UNCHANGED <<now, identities, currentIndex, initialized, picks, reqs>>

\* refreshIdentityToken after its await, for one identity; the last one to
\* complete resolves Promise.all and refreshExpiredTokens returns the count
\* (lastOp.ret), its `results` being dropped.
RefreshComplete(i, outcome, maxFail) ==
    /\ refreshing
    /\ refreshResults[i] = "pending"
    /\ outcome = ExchangeFailed => identities[i].failCount < maxFail
    /\ identities' = [identities EXCEPT ![i] =
                        IF outcome = ExchangeFailed
                        THEN markFailure(@, "error")
                        ELSE markSuccess(updateToken(@, outcome))]
    /\ LET res == [refreshResults EXCEPT ![i] =
                     IF outcome = ExchangeFailed THEN "false" ELSE "true"]
           ok == IF outcome = ExchangeFailed THEN exchangeOk
                 ELSE exchangeOk \cup {i}
           done == \A j \in DOMAIN res : res[j] # "pending"
       IN  /\ refreshResults' = IF done THEN <<>> ELSE res
           /\ exchangeOk' = IF done THEN {} ELSE ok
           /\ refreshing' = ~done
           /\ lastOp' = Op(IF outcome = ExchangeFailed THEN "refreshFail"
                           ELSE "refreshOk", i, refreshedCount(res))
    /\ UNCHANGED <<now, currentIndex, initialized, picks, reqs>>

\* d minutes pass with no call into the pool.
Wait(d, maxTime) ==
    /\ now + d <= maxTime
    /\ now' = now + d
    /\ lastOp' = Op("tick", NoIdentity, 0)
    /\ UNCHANGED <<poolVars, reqs>>

Tick(maxTime) == Wait(1, maxTime)

\* ------------------------------------------------ the pool specifications
Init ==
    /\ InitPool
    /\ reqs = <<>>

\* Spec: two cookies of which one is invalid (its exchange fails), every
\* kind of token for the other, automatic refresh switched off
\* (AUTO_REFRESH_TOKEN false).
OneValid ==
    {o \in [1..2 -> ExchangeOutcomes(TokenExps)] :
        Cardinality({i \in 1..2 : o[i] = ExchangeFailed}) = 1}

DoInitialize == Initialize(OneValid)
DoSelect == Select
DoMarkFailure == \E i \in 1..Len(identities) : MarkIdentityFailure(i, MaxFail)
DoMarkSuccess == \E i \in 1..Len(identities) : MarkIdentitySuccess(i)
DoTick == Tick(MaxTime)

Next ==
    \/ DoInitialize
    \/ DoSelect
    \/ DoMarkFailure
    \/ DoMarkSuccess
    \/ DoTick

Spec == Init /\ [][Next]_vars

\* SpecTwo: two cookies, every outcome of the two exchanges, automatic
\* refresh switched off.
TwoInitialize == Initialize([1..2 -> ExchangeOutcomes(TokenExpsTwo)])
TwoSelect == Select
TwoMarkFailure ==
    \E i \in 1..Len(identities) : MarkIdentityFailure(i, MaxFailTwo)
TwoMarkSuccess == \E i \in 1..Len(identities) : MarkIdentitySuccess(i)
TwoTick == Tick(MaxTimeTwo)

NextTwo ==
    \/ TwoInitialize
    \/ TwoSelect
    \/ TwoMarkFailure
    \/ TwoMarkSuccess
    \/ TwoTick

SpecTwo == Init /\ [][NextTwo]_vars

\* SpecRenew: two cookies with the periodic refresh, the outcome reports of
\* the requests and the clock; selections, which change no credential, are
\* left out.
RenewInitialize == Initialize([1..2 -> ExchangeOutcomes(TokenExpsTwo)])
RenewMarkFailure ==
    \E i \in 1..Len(identities) : MarkIdentityFailure(i, MaxFailRenew)
RenewMarkSuccess == \E i \in 1..Len(identities) : MarkIdentitySuccess(i)
RenewRefreshStart == RefreshStart
RenewRefreshComplete ==
    \E i \in 1..Len(identities) : \E o \in ExchangeOutcomes(TokenExpsTwo) :
        RefreshComplete(i, o, MaxFailRenew)
RenewTick == Tick(MaxTimeRenew)

NextRenew ==
    \/ RenewInitialize
    \/ RenewMarkFailure
    \/ RenewMarkSuccess
    \/ RenewRefreshStart
    \/ RenewRefreshComplete
    \/ RenewTick

SpecRenew == Init /\ [][NextRenew]_vars

\* SpecThree: three cookies that all obtained a long-lived token; the clock
\* moves by whole cool-downs of a Down identity.
ThreeInitialize == Initialize([1..3 -> TokenExpsThree])
ThreeSelect == Select
ThreeMarkFailure ==
    \E i \in 1..Len(identities) : MarkIdentityFailure(i, MaxFailThree)
ThreeMarkSuccess == \E i \in 1..Len(identities) : MarkIdentitySuccess(i)
ThreeWait == Wait(DOWN_RETRY_DELAY, MaxTimeThree)
NextThree ==
    \/ ThreeInitialize
    \/ ThreeSelect
    \/ ThreeMarkFailure
    \/ ThreeMarkSuccess
    \/ ThreeWait

SpecThree == Init /\ [][NextThree]_vars

\* ------------------------------------------- POST /v1/chat/completions
\* A request in the handler: pc is the await it is suspended at, cause
\* what made the handler give the request up, and errStatus the
\* response.status of the error it holds (0: the error has no response).
NewReq ==
    [pc |-> "idle", identity |-> NoIdentity, nextIdentity |-> NoIdentity,
     wantStream |-> FALSE, headersSent |-> FALSE, ended |-> FALSE,
     status |-> 0, attempts |-> 0, inLoop |-> FALSE, retry |-> 0,
     chatOwner |-> NoIdentity, cause |-> "none", errStatus |-> 0]

\* The handler's catch block: an error answer with the status
\* e.response.status || 500 unless headers were sent.
Failed(q) ==
    [q EXCEPT !.pc = "done",
              !.status = IF q.headersSent THEN q.status
                         ELSE IF q.errStatus # 0 THEN q.errStatus
                         ELSE 500,
              !.ended = q.ended \/ ~q.headersSent]

\* The error a rejected http.post leaves in result.error: an upstream
\* answer that is not 2xx carries its status, a timeout or a connection
\* failure carries no response.
Rejected(q, outcome) ==
    [q EXCEPT !.cause = "upstream",
              !.errStatus = IF outcome = "http" THEN UpstreamErrorStatus
                            ELSE 0]

\* executeQwenRequest up to its await of http.post.
Execute(q) ==
    [q EXCEPT !.pc = "dispatch",
              !.headersSent = q.headersSent \/ q.wantStream,
              !.attempts = q.attempts + 1]

\* The retry loop running while retry <= maxRetries.
AfterFailure_OneMore(q, ids, cur) ==
    LET enter == IF ~q.inLoop THEN initialized /\ q.identity # Legacy
                 ELSE q.retry + 1 <= maxRetries
        sel == getAvailableIdentity(ids, cur)
    IN  IF ~enter THEN [req |-> Failed(q), cur |-> cur]
        ELSE IF sel.id = NoIdentity \/ sel.id = q.identity
        THEN [req |-> Failed(q), cur |-> sel.cur]
        ELSE [req |-> [q EXCEPT !.pc = "newchat", !.nextIdentity = sel.id,
                                !.retry = IF q.inLoop THEN q.retry + 1 ELSE 0,
                                !.inLoop = TRUE],
              cur |-> sel.cur]

\* What the handler does with a failed, retryable result: the test that
\* guards the retry loop, the loop condition, and the re-selection that
\* opens an iteration.  Yields the request and the round-robin index.
AfterFailure(q, ids, cur) ==
    LET enter == IF ~q.inLoop THEN initialized /\ q.identity # Legacy
                 ELSE q.retry + 1 < maxRetries
        sel == getAvailableIdentity(ids, cur)
    IN  IF ~enter THEN [req |-> Failed(q), cur |-> cur]
        ELSE IF sel.id = NoIdentity \/ sel.id = q.identity
        THEN [req |-> Failed(q), cur |-> sel.cur]
        ELSE [req |-> [q EXCEPT !.pc = "newchat", !.nextIdentity = sel.id,
                                !.retry = IF q.inLoop THEN q.retry + 1 ELSE 0,
                                !.inLoop = TRUE],
              cur |-> sel.cur]

ReqOp(r) == Op("request", r, 0)

\* startServer: the server listens once initialize() of main.js is through,
\* with the pool initialized or in the single-cookie mode.
Listen ==
    /\ reqs = <<>>
    /\ reqs' = [r \in 1..NumReqs |-> NewReq]
    /\ lastOp' = Op("listen", NoIdentity, 0)
    /\ UNCHANGED <<now, poolVars>>

\* The handler up to its await of transformOpenAIRequestToQwen.  hasToken:
\* req.state carries a token of the caller or of the configuration.
ReqStart(r, stream, hasToken) ==
    /\ reqs # <<>>
    /\ reqs[r].pc = "idle"
    /\ LET sel == IF initialized
                  THEN getAvailableIdentity(identities, currentIndex)
                  ELSE [id |-> NoIdentity, cur |-> currentIndex,
                        degraded |-> FALSE]
           q == [reqs[r] EXCEPT !.wantStream = stream]
       IN  /\ currentIndex' = sel.cur
           /\ reqs' = [reqs EXCEPT ![r] =
                 IF sel.id = NoIdentity /\ ~hasToken
                 THEN [q EXCEPT !.pc = "done", !.status = 401,
                                !.ended = TRUE, !.cause = "auth"]
                 ELSE [q EXCEPT !.pc = "transform",
                                !.identity = IF sel.id = NoIdentity
                                             THEN Legacy ELSE sel.id]]
    /\ lastOp' = ReqOp(r)
    /\ UNCHANGED <<now, identities, initialized, refreshing, refreshResults,
                   exchangeOk, picks>>

\* The authentication middleware answers 401: the API key is wrong, or the
\* Authorization header carries no token.
ReqUnauthorized(r) ==
    /\ reqs # <<>>
    /\ reqs[r].pc = "idle"
    /\ reqs' = [reqs EXCEPT ![r] =
          [@ EXCEPT !.pc = "done", !.status = 401, !.ended = TRUE,
                    !.cause = "auth"]]
    /\ lastOp' = ReqOp(r)
    /\ UNCHANGED <<now, poolVars>>

\* ReqTransformed reporting a failure of the identity when the request is
\* malformed or its payload invalid.
ReqTransformed_MarkFailure(r, outcome) ==
    /\ reqs # <<>>
    /\ reqs[r].pc = "transform"
    /\ LET q == reqs[r]
       IN  /\ reqs' = [reqs EXCEPT ![r] =
                CASE outcome = "malformed" ->
                       Failed([q EXCEPT !.cause = "malformed"])
                  [] outcome = "nochat" -> Failed([q EXCEPT !.cause = "nochat"])
                  [] outcome = "invalid" ->
                       [q EXCEPT !.pc = "done", !.status = 400,
                                 !.ended = TRUE, !.cause = "invalid"]
                  [] OTHER -> Execute([q EXCEPT !.chatOwner = q.identity])]
           /\ identities' =
                IF outcome \in {"malformed", "invalid"} /\ q.identity # Legacy
                THEN [identities EXCEPT ![q.identity] = markFailure(@, "error")]
                ELSE identities
    /\ lastOp' = ReqOp(r)
    /\ UNCHANGED <<now, currentIndex, initialized, refreshing, refreshResults,
                   exchangeOk, picks>>

\* transformOpenAIRequestToQwen has settled: it threw because the messages
\* are missing, not an array or empty ("malformed") or because
\* createNewChat returned null ("nochat"), its payload fails
\* validateQwenRequest ("invalid"), or the first executeQwenRequest starts.
ReqTransformed(r, outcome) ==
    /\ reqs # <<>>
    /\ reqs[r].pc = "transform"
    /\ LET q == reqs[r]
       IN  reqs' = [reqs EXCEPT ![r] =
             CASE outcome = "malformed" ->
                    Failed([q EXCEPT !.cause = "malformed"])
               [] outcome = "nochat" -> Failed([q EXCEPT !.cause = "nochat"])
               [] outcome = "invalid" ->
                    [q EXCEPT !.pc = "done", !.status = 400, !.ended = TRUE,
                              !.cause = "invalid"]
               [] OTHER -> Execute([q EXCEPT !.chatOwner = q.identity])]
    /\ lastOp' = ReqOp(r)
    /\ UNCHANGED <<now, poolVars>>

\* ReqDispatched with the streaming catch reporting its failure as
\* retryable although the headers are sent.
ReqDispatched_RetryStream(r, outcome) ==
    /\ reqs # <<>>
    /\ reqs[r].pc = "dispatch"
    /\ LET q == reqs[r]
           i == q.identity
       IN  IF i = Legacy
           THEN /\ reqs' = [reqs EXCEPT ![r] =
                       Failed([q EXCEPT !.cause =
                                 IF outcome = "ok" THEN "internal"
                                 ELSE "upstream"])]
                /\ UNCHANGED <<identities, currentIndex>>
           ELSE IF outcome = "ok"
           THEN /\ identities' = [identities EXCEPT ![i] = markSuccess(@)]
                /\ reqs' = [reqs EXCEPT ![r].pc =
                               IF q.wantStream THEN "piping" ELSE "collect"]
                /\ UNCHANGED currentIndex
           ELSE LET ids == [identities EXCEPT ![i] = markFailure(@, "error")]
                    nxt == AfterFailure(Rejected(q, outcome), ids,
                                        currentIndex)
                IN  /\ identities' = ids
                    /\ reqs' = [reqs EXCEPT ![r] = nxt.req]
                    /\ currentIndex' = nxt.cur
    /\ lastOp' = ReqOp(r)
    /\ UNCHANGED <<now, initialized, refreshing, refreshResults, exchangeOk,
                   picks>>

\* http.post of executeQwenRequest has settled (the axios instance rejects
\* every status that is not 2xx).  The object of the single-cookie mode has
\* no markSuccess/markFailure method: the TypeError of
\* markIdentitySuccess/markIdentityFailure reaches the handler's catch.
ReqDispatched(r, outcome) ==
    /\ reqs # <<>>
    /\ reqs[r].pc = "dispatch"
    /\ LET q == reqs[r]
           i == q.identity
       IN  IF i = Legacy
           THEN /\ reqs' = [reqs EXCEPT ![r] =
                       Failed([q EXCEPT !.cause =
                                 IF outcome = "ok" THEN "internal"
                                 ELSE "upstream"])]
                /\ UNCHANGED <<identities, currentIndex>>
           ELSE IF outcome = "ok"
           THEN /\ identities' = [identities EXCEPT ![i] = markSuccess(@)]
                /\ reqs' = [reqs EXCEPT ![r].pc =
                               IF q.wantStream THEN "piping" ELSE "collect"]
                /\ UNCHANGED currentIndex
           ELSE LET ids == [identities EXCEPT ![i] = markFailure(@, "error")]
                    nxt == AfterFailure(Rejected(q, outcome), ids,
                                        currentIndex)
                IN  /\ identities' = ids
                    /\ IF q.headersSent
                       THEN /\ reqs' = [reqs EXCEPT ![r] =
                                   Failed([Rejected(q, outcome)
                                             EXCEPT !.ended = TRUE])]
                            /\ UNCHANGED currentIndex
                       ELSE /\ reqs' = [reqs EXCEPT ![r] = nxt.req]
                            /\ currentIndex' = nxt.cur
    /\ lastOp' = ReqOp(r)
    /\ UNCHANGED <<now, initialized, refreshing, refreshResults, exchangeOk,
                   picks>>

\* collectOpenAICompletionFromSSE of the non-streaming branch has settled.
ReqCollected(r, outcome) ==
    /\ reqs # <<>>
    /\ reqs[r].pc = "collect"
    /\ LET q == reqs[r]
           i == q.identity
       IN  IF outcome = "ok"
           THEN /\ reqs' = [reqs EXCEPT ![r] =
                       [q EXCEPT !.pc = "done", !.status = 200,
                                 !.ended = TRUE]]
                /\ UNCHANGED <<identities, currentIndex>>
           ELSE LET ids == [identities EXCEPT ![i] = markFailure(@, "error")]
                    nxt == AfterFailure(Rejected(q, outcome), ids,
                                        currentIndex)
                IN  /\ identities' = ids
                    /\ reqs' = [reqs EXCEPT ![r] = nxt.req]
                    /\ currentIndex' = nxt.cur
    /\ lastOp' = ReqOp(r)
    /\ UNCHANGED <<now, initialized, refreshing, refreshResults, exchangeOk,
                   picks>>

\* createNewChat of the retry loop has settled (it returns null instead of
\* throwing): the request goes on with the next identity, and with the new
\* chat only if one was opened.
ReqNewChat(r, outcome) ==
    /\ reqs # <<>>
    /\ reqs[r].pc = "newchat"
    /\ LET q == reqs[r]
       IN  reqs' = [reqs EXCEPT ![r] =
             Execute([q EXCEPT !.identity = q.nextIdentity,
                               !.chatOwner = IF outcome = "ok"
                                             THEN q.nextIdentity
                                             ELSE q.chatOwner])]
    /\ lastOp' = ReqOp(r)
    /\ UNCHANGED <<now, poolVars>>

\* The upstream stream of a streaming response ends: safeWriteDone.
ReqStreamEnd(r) ==
    /\ reqs # <<>>
    /\ reqs[r].pc = "piping"
    /\ reqs' = [reqs EXCEPT ![r].pc = "done", ![r].ended = TRUE]
    /\ lastOp' = ReqOp(r)
    /\ UNCHANGED <<now, poolVars>>

\* The upstream stream of a streaming response fails: its 'error' listener
\* marks the failure, and the 'close' that follows runs safeWriteDone.
ReqStreamError(r) ==
    /\ reqs # <<>>
    /\ reqs[r].pc = "piping"
    /\ identities' = [identities EXCEPT ![reqs[r].identity] =
                        markFailure(@, "error")]
    /\ reqs' = [reqs EXCEPT ![r].pc = "done", ![r].ended = TRUE]
    /\ lastOp' = ReqOp(r)
    /\ UNCHANGED <<now, currentIndex, initialized, refreshing, refreshResults,
                   exchangeOk, picks>>

\* SpecReq: the server with two cookies (each exchange succeeds or fails)
\* or in the single-cookie mode, handling NumReqs requests.
ReqInitialize == Initialize([1..2 -> ExchangeOutcomes(TokenExpsThree)])
ReqListen == Listen
ReqDoStart ==
    \E r \in 1..NumReqs : \E stream, hasToken \in BOOLEAN :
        ReqStart(r, stream, hasToken)
ReqDoTransformed ==
    \E r \in 1..NumReqs : \E o \in {"ok", "malformed", "invalid"} :
        ReqTransformed(r, o)
ReqDoDispatched ==
    \E r \in 1..NumReqs : \E o \in {"ok", "error"} : ReqDispatched(r, o)
ReqDoCollected ==
    \E r \in 1..NumReqs : \E o \in {"ok", "error"} : ReqCollected(r, o)
ReqDoNewChat ==
    \E r \in 1..NumReqs : \E o \in {"ok", "null"} : ReqNewChat(r, o)
ReqDoStreamEnd == \E r \in 1..NumReqs : ReqStreamEnd(r)
ReqDoStreamError == \E r \in 1..NumReqs : ReqStreamError(r)
NextReq ==
    \/ ReqInitialize
    \/ ReqListen
    \/ ReqDoStart
    \/ ReqDoTransformed
    \/ ReqDoDispatched
    \/ ReqDoCollected
    \/ ReqDoNewChat
    \/ ReqDoStreamEnd
    \/ ReqDoStreamError

SpecReq == Init /\ [][NextReq]_vars

\* SpecErr: the server as in SpecReq, handling ErrReqs of its requests, with
\* every way a request can fail: the authentication middleware, the two
\* errors of transformOpenAIRequestToQwen, and upstream errors with and
\* without a response.
ErrInitialize == Initialize([1..2 -> ExchangeOutcomes(TokenExpsThree)])
ErrListen == Listen
ErrDoStart ==
    \E r \in 1..ErrReqs : \E stream, hasToken \in BOOLEAN :
        ReqStart(r, stream, hasToken)
ErrDoUnauthorized == \E r \in 1..ErrReqs : ReqUnauthorized(r)
ErrDoTransformed ==
    \E r \in 1..ErrReqs : \E o \in {"ok", "malformed", "nochat", "invalid"} :
        ReqTransformed(r, o)
ErrDoDispatched ==
    \E r \in 1..ErrReqs : \E o \in {"ok", "error", "http"} :
        ReqDispatched(r, o)
ErrDoCollected ==
    \E r \in 1..ErrReqs : \E o \in {"ok", "error"} : ReqCollected(r, o)
ErrDoNewChat ==
    \E r \in 1..ErrReqs : \E o \in {"ok", "null"} : ReqNewChat(r, o)
ErrDoStreamEnd == \E r \in 1..ErrReqs : ReqStreamEnd(r)
ErrDoStreamError == \E r \in 1..ErrReqs : ReqStreamError(r)
NextErr ==
    \/ ErrInitialize
    \/ ErrListen
    \/ ErrDoStart
    \/ ErrDoUnauthorized
    \/ ErrDoTransformed
    \/ ErrDoDispatched
    \/ ErrDoCollected
    \/ ErrDoNewChat
    \/ ErrDoStreamEnd
    \/ ErrDoStreamError

SpecErr == Init /\ [][NextErr]_vars

\* ------------------------------------------------------------ properties
IdentityIds == 1..Len(identities)

\* The token of identity i is present and unexpired.
TokenValid(i) ==
    /\ identities[i].token > 0
    /\ identities[i].token >= now

\* Identity i passes the availability test of getAvailableIdentity.
Available(i) ==
    /\ identities[i].status # DOWN
    /\ identities[i].nextRetryAt = Null \/ now >= identities[i].nextRetryAt
    /\ TokenValid(i)

Selected == lastOp.op = "select"
FailureOps == {"markFailure", "refreshFail"}
SuccessOps == {"markSuccess", "refreshOk"}

C2_RoundRobin ==
    \A k \in 1..(Len(picks) - 1) :
        /\ picks[k] \in {1, 2}
        /\ picks[k + 1] \in {1, 2}
        /\ picks[k] # picks[k + 1]

C2_Witness == Len(picks) = 4

\* C3: getAvailableIdentity returns null only when no credential holds a
\* token; when no credential is available but some hold a token, it returns
\* the token holder at position currentIndex mod (number of token holders).
TokenHolders == {i \in IdentityIds : identities[i].token # NoToken}

C3_NeverBlocking ==
    Selected =>
        /\ lastOp.id = NoIdentity <=> TokenHolders = {}
        /\ ((\A i \in IdentityIds : ~Available(i)) /\ TokenHolders # {})
              => /\ lastOp.id \in TokenHolders
                 /\ lastOp.ret = 1
                 /\ Cardinality({j \in TokenHolders : j < lastOp.id})
                      = currentIndex % Cardinality(TokenHolders)

C3_Witness ==
    /\ Selected
    /\ lastOp.ret = 1
    /\ lastOp.id = 2
    /\ Cardinality(TokenHolders) = 2

\* C4: every markFailure adds exactly 1 to failCount; a new count of 5 or
\* more gives status Down and nextRetryAt = now + 5 min, a new count of 3 or
\* 4 gives Degraded and now + 2 min, below 3 status and nextRetryAt are kept;
\* failCount only ever decreases in a markSuccess of that credential.
C4_MarkFailure ==
    [][\A i \in IdentityIds :
         Len(identities') = Len(identities) =>
            LET a == identities[i]
                b == identities'[i]
            IN  /\ (lastOp'.op \in FailureOps /\ lastOp'.id = i) =>
                      /\ b.failCount = a.failCount + 1
                      /\ IF b.failCount >= 5
                         THEN b.status = DOWN /\ b.nextRetryAt = now + 5
                         ELSE IF b.failCount >= 3
                         THEN b.status = DEGRADED /\ b.nextRetryAt = now + 2
                         ELSE b.status = a.status
                              /\ b.nextRetryAt = a.nextRetryAt
                /\ b.failCount < a.failCount =>
                      (lastOp'.op \in SuccessOps /\ lastOp'.id = i)
      ]_vars

C4_Witness ==
    /\ lastOp.op = "markFailure"
    /\ identities[lastOp.id].failCount = 5
    /\ identities[lastOp.id].status = DOWN
    /\ identities[lastOp.id].lastUsedAt # Null

\* C5: every markSuccess lowers failCount by 1 but not below 0, sets
\* lastUsedAt to now, and sets status Healthy and clears nextRetryAt exactly
\* when the credential is available (not Down, cool-down elapsed, token
\* present and unexpired); otherwise it keeps status and nextRetryAt.
C5_MarkSuccess ==
    [][/\ \A i \in 1..Len(identities') : identities'[i].failCount >= 0
       /\ \A i \in IdentityIds :
            (/\ Len(identities') = Len(identities)
             /\ lastOp'.op \in SuccessOps
             /\ lastOp'.id = i) =>
               LET a == identities[i]
                   b == identities'[i]
                   avail == /\ a.status # DOWN
                            /\ a.nextRetryAt = Null \/ now >= a.nextRetryAt
                            /\ b.token > 0
                            /\ b.token >= now
               IN  /\ b.failCount =
                        (IF a.failCount > 0 THEN a.failCount - 1 ELSE 0)
                   /\ b.lastUsedAt = now
                   /\ IF avail
                      THEN b.status = HEALTHY /\ b.nextRetryAt = Null
                      ELSE b.status = a.status
                           /\ b.nextRetryAt = a.nextRetryAt
      ]_vars

C5_Witness ==
    /\ lastOp.op = "markSuccess"
    /\ identities[lastOp.id].status = HEALTHY
    /\ identities[lastOp.id].failCount = 3
    /\ identities[lastOp.id].lastUsedAt = now

\* C6 (as stated): two credentials with equal failCount and equal time
\* relative to nextRetryAt (at one moment: equal nextRetryAt) have the same
\* status.
C6_Original ==
    \A i, j \in IdentityIds :
        (/\ identities[i].failCount = identities[j].failCount
         /\ identities[i].nextRetryAt = identities[j].nextRetryAt)
        => identities[i].status = identities[j].status

\* C6 (amended): status is a stored field: it changes only in a markFailure
\* or markSuccess of that credential (renewal included), never by the
\* passing of time or by a selection, and a Healthy credential has no
\* nextRetryAt.
C6_StoredStatus ==
    [][/\ \A i \in IdentityIds :
            (/\ Len(identities') = Len(identities)
             /\ identities'[i].status # identities[i].status)
            => (/\ lastOp'.op \in FailureOps \cup SuccessOps
                /\ lastOp'.id = i)
       /\ \A i \in 1..Len(identities') :
            identities'[i].status = HEALTHY
               => identities'[i].nextRetryAt = Null
      ]_vars

C6_Witness ==
    \E i, j \in IdentityIds :
        /\ identities[i].failCount = identities[j].failCount
        /\ identities[i].nextRetryAt = identities[j].nextRetryAt
        /\ identities[i].failCount > 0
        /\ identities[i].status = DEGRADED
        /\ identities[j].status = HEALTHY

\* C7 (as stated): a credential that is Degraded or Down after repeated
\* failures, holds an unexpired token and whose cool-down has elapsed
\* passes the availability test again.
C7_CooldownLifted ==
    \A i \in IdentityIds :
        (/\ identities[i].status \in {DEGRADED, DOWN}
         /\ identities[i].nextRetryAt # Null
         /\ now >= identities[i].nextRetryAt
         /\ TokenValid(i))
        => isAvailable(identities[i])

\* C8: after initialize the pool is initialized and holds one credential
\* per cookie; a credential whose exchange failed is Degraded with the error
\* recorded and one failure counted, the others are Healthy with their
\* token; while no credential has obtained a token, every selection
\* returns null.
C8_InitTolerant ==
    /\ lastOp.op = "initialize" =>
          /\ initialized
          /\ Len(identities) = lastOp.ret
          /\ \A i \in IdentityIds :
                IF identities[i].token = NoToken
                THEN /\ identities[i].status = DEGRADED
                     /\ identities[i].lastError # NoError
                     /\ identities[i].failCount = 1
                ELSE /\ identities[i].status = HEALTHY
                     /\ identities[i].lastError = NoError
                     /\ identities[i].failCount = 0
    /\ (Selected /\ TokenHolders = {}) => lastOp.id = NoIdentity

C8_Witness ==
    /\ lastOp.op = "initialize"
    /\ Len(identities) = 2
    /\ identities[1].token = NoToken
    /\ identities[1].status = DEGRADED
    /\ identities[2].token # NoToken
    /\ identities[2].status = HEALTHY

\* C9: refreshExpiredTokens exchanges exactly the credentials whose token is
\* missing, expired (or without expiry) or within 24 h of expiry; a failed
\* exchange is a markFailure of that credential and changes no other
\* credential nor the pending exchanges of the others; the count returned
\* is the number of credentials whose exchange succeeded.
Renewing(i) == refreshing /\ refreshResults[i] = "pending"

C9_Renewal ==
    [][/\ lastOp'.op = "refreshStart" =>
            /\ \A i \in IdentityIds :
                  (refreshing' /\ refreshResults'[i] = "pending") <=>
                      \/ identities[i].token = NoToken
                      \/ identities[i].token = 0
                      \/ identities[i].token < now
                      \/ identities[i].token - now < 1440
            /\ ~refreshing' => lastOp'.ret = 0
       /\ lastOp'.op \in {"refreshFail", "refreshOk"} =>
            /\ Renewing(lastOp'.id)
            /\ \A j \in IdentityIds \ {lastOp'.id} :
                  /\ identities'[j] = identities[j]
                  /\ refreshing' =>
                        refreshResults'[j] = refreshResults[j]
            /\ refreshing' => \E j \in IdentityIds \ {lastOp'.id} :
                                 Renewing(j)
       /\ lastOp'.op = "refreshFail" =>
            /\ identities'[lastOp'.id].failCount
                 = identities[lastOp'.id].failCount + 1
            /\ identities'[lastOp'.id].token = identities[lastOp'.id].token
            /\ refreshing' => exchangeOk' = exchangeOk
            /\ ~refreshing' => lastOp'.ret = Cardinality(exchangeOk)
       /\ lastOp'.op = "refreshOk" =>
            /\ identities'[lastOp'.id].token # NoToken
            /\ refreshing' => exchangeOk' = exchangeOk \cup {lastOp'.id}
            /\ ~refreshing' =>
                  lastOp'.ret = Cardinality(exchangeOk \cup {lastOp'.id})
      ]_vars

C9_Witness ==
    /\ lastOp.op = "refreshFail"
    /\ ~refreshing
    /\ lastOp.ret = 1
    /\ lastOp.id = 2
    /\ identities[2].lastError # NoError
    /\ identities[1].lastUsedAt = now

\* C10: a chat-completion request dispatches to the upstream at most 3
\* times: the first attempt and at most 2 retries.
C10_AtMostThree ==
    \A r \in 1..Len(reqs) : reqs[r].attempts <= 3

C10_Witness ==
    \E r \in 1..Len(reqs) :
        /\ reqs[r].attempts = 3
        /\ reqs[r].pc = "done"
        /\ reqs[r].status = 500

\* A step in which the dispatch of request r failed (an error answer of the
\* handler's catch block follows a pending http.post or collection), before
\* any header was sent, with an identity of the pool and retries left.
GaveUp(r) ==
    /\ reqs # <<>>
    /\ reqs' # <<>>
    /\ reqs[r].pc \in {"dispatch", "collect"}
    /\ reqs'[r].pc = "done"
    /\ reqs'[r].status = 500
    /\ ~reqs[r].headersSent
    /\ reqs[r].identity # Legacy
    /\ reqs[r].attempts <= maxRetries

\* C11 (as stated): a request whose dispatch failed retryably gives up only
\* when the pool holds no available identity other than the one just marked
\* failed; otherwise it goes on with a different identity.
C11_Original ==
    [][\A r \in 1..NumReqs :
         GaveUp(r) =>
            ~\E j \in 1..Len(identities') :
                /\ j # reqs[r].identity
                /\ isAvailable(identities'[j])
      ]_vars

\* C12 (as stated): when the dispatch of a request, streaming or not, fails
\* and the re-selection of the retry loop would return another identity,
\* the request is retried (it opens a chat with that identity).
C12_Original ==
    [][\A r \in 1..NumReqs :
         (/\ reqs # <<>>
          /\ reqs[r].pc = "dispatch"
          /\ reqs[r].identity # Legacy
          /\ reqs[r].attempts = 1
          /\ identities'[reqs[r].identity].failCount
               = identities[reqs[r].identity].failCount + 1
          /\ lastOp' = ReqOp(r)
          /\ getAvailableIdentity(identities', currentIndex).id
               \notin {NoIdentity, reqs[r].identity})
         => /\ reqs'[r].pc = "newchat"
            /\ reqs'[r].nextIdentity # reqs[r].identity
      ]_vars

\* C13 (as stated): every dispatch uses a chat that was opened with the
\* identity that authenticates the dispatch.
C13_Original ==
    \A r \in 1..Len(reqs) :
        reqs[r].pc = "dispatch" => reqs[r].chatOwner = reqs[r].identity

\* C14: once the response headers of a request are sent, no step of that
\* request selects an identity or dispatches again, and a request whose
\* headers are sent has dispatched exactly once.
C14_NoRetryAfterHeaders ==
    [][\A r \in 1..NumReqs :
         (reqs # <<>> /\ reqs[r].headersSent) =>
            /\ reqs'[r].attempts = reqs[r].attempts
            /\ reqs'[r].attempts = 1
            /\ reqs'[r].identity = reqs[r].identity
            /\ reqs'[r].pc # "newchat"
            /\ lastOp' = ReqOp(r) => currentIndex' = currentIndex
      ]_vars

C14_Witness ==
    \E r \in 1..Len(reqs) :
        /\ reqs[r].headersSent
        /\ reqs[r].pc = "done"
        /\ reqs[r].ended
        /\ reqs[r].attempts = 1
        /\ reqs[r].identity # Legacy
        /\ identities[reqs[r].identity].failCount > 0
        /\ \E j \in IdentityIds : j # reqs[r].identity /\ Available(j)

\* ------------------------------------- createQwenToOpenAIStreamTransformer
\* The upstream body is a sequence of symbols: "n" is a newline, "d" the
\* prefix `data: `, and every record body comes in two halves so that a
\* chunk can end inside it.  Record kinds: A = {content:"A"},
\* B = {content:"B", finish_reason:"stop"}, E = {success:false}, D = [DONE].
RecordKinds == {"A", "B", "E", "D"}
Half1 == [A |-> "A1", B |-> "B1", E |-> "E1", D |-> "D1"]
Half2 == [A |-> "A2", B |-> "B2", E |-> "E2", D |-> "D2"]

\* The records that are JSON objects (their text starts with `{`).
JsonKinds == {"A", "B", "E"}

\* One record as upstream sends it: `data: <body>\n\n`.
Encode(k) == <<"d", Half1[k], Half2[k], "n", "n">>

RECURSIVE EncodeAll(_)
EncodeAll(recs) ==
    IF recs = <<>> THEN <<>>
    ELSE Encode(Head(recs)) \o EncodeAll(Tail(recs))

\* The upstream bodies: up to MaxRecords records.
Bodies ==
    {EncodeAll(recs) : recs \in UNION {[1..n -> RecordKinds] :
                                          n \in 0..MaxRecords}}

\* The frames the transformer pushes.
FrameA == "A"
FrameBStop == "B_stop"
FrameError == "Error_stop"
FrameRaw == "raw"
FrameDone == "[DONE]"

\* buffer.includes('[DONE]')
IncludesDone(buf) ==
    \E i \in 1..(Len(buf) - 1) : buf[i] = "D1" /\ buf[i + 1] = "D2"

\* buffer.includes('\n\n'), buffer.includes('\n')
IncludesNN(buf) ==
    \E i \in 1..(Len(buf) - 1) : buf[i] = "n" /\ buf[i + 1] = "n"
IncludesN(buf) == \E i \in 1..Len(buf) : buf[i] = "n"

\* buffer.split('\n\n')
RECURSIVE SplitNN(_)
SplitNN(buf) ==
    IF ~IncludesNN(buf) THEN <<buf>>
    ELSE LET i == CHOOSE j \in 1..(Len(buf) - 1) :
                     /\ buf[j] = "n" /\ buf[j + 1] = "n"
                     /\ \A m \in 1..(j - 1) :
                           ~(buf[m] = "n" /\ buf[m + 1] = "n")
         IN  <<SubSeq(buf, 1, i - 1)>>
                \o SplitNN(SubSeq(buf, i + 2, Len(buf)))

\* buffer.split('\n')
RECURSIVE SplitN(_)
SplitN(buf) ==
    IF ~IncludesN(buf) THEN <<buf>>
    ELSE LET i == CHOOSE j \in 1..Len(buf) :
                     buf[j] = "n" /\ \A m \in 1..(j - 1) : buf[m] # "n"
         IN  <<SubSeq(buf, 1, i - 1)>> \o SplitN(SubSeq(buf, i + 1, Len(buf)))

\* String.prototype.trim, the newline being the only white space of the
\* symbols.
RECURSIVE Trim(_)
Trim(line) ==
    IF line = <<>> THEN line
    ELSE IF Head(line) = "n" THEN Trim(Tail(line))
    ELSE IF line[Len(line)] = "n" THEN Trim(SubSeq(line, 1, Len(line) - 1))
    ELSE line

Front(seq) == SubSeq(seq, 1, Len(seq) - 1)

\* The lines of a buffer and what stays buffered (transform, lines 30-42).
SplitLines(buf) ==
    IF IncludesNN(buf)
    THEN LET parts == SplitNN(buf)
         IN  [lines |-> Front(parts), buffer |-> parts[Len(parts)]]
    ELSE IF IncludesN(buf)
    THEN LET parts == SplitN(buf)
             lastLine == parts[Len(parts)]
         IN  IF lastLine # <<>> /\ Head(lastLine) # "d"
             THEN [lines |-> Front(parts), buffer |-> lastLine]
             ELSE [lines |-> parts, buffer |-> <<>>]
    ELSE [lines |-> <<>>, buffer |-> buf]

\* The frames pushed for one line (the body of the for loop).
LineFrames(line) ==
    LET dataStr == IF line # <<>> /\ Head(line) = "d" THEN Trim(Tail(line))
                   ELSE Trim(line)
    IN  IF Trim(line) = <<>> \/ dataStr = <<>> THEN <<>>
        ELSE IF dataStr = <<"D1", "D2">> THEN <<FrameDone>>
        ELSE IF dataStr = <<"E1", "E2">> THEN <<FrameError, FrameDone>>
        ELSE IF dataStr = <<"A1", "A2">> THEN <<FrameA>>
        ELSE IF dataStr = <<"B1", "B2">> THEN <<FrameBStop>>
        ELSE IF Head(dataStr) \in {Half1[k] : k \in JsonKinds} THEN <<>>
        ELSE <<FrameRaw>>

RECURSIVE LinesFrames(_)
LinesFrames(lines) ==
    IF lines = <<>> THEN <<>>
    ELSE LineFrames(Head(lines)) \o LinesFrames(Tail(lines))

\* transform(chunk): the new buffer and the frames pushed.
transform(buffer, chunk) ==
    LET buf == buffer \o chunk
    IN  IF Len(buf) > MAX_BUFFER_SIZE THEN [buffer |-> <<>>, out |-> <<>>]
        ELSE IF IncludesDone(buf)
        THEN [buffer |-> <<>>, out |-> <<FrameDone>>]
        ELSE LET sp == SplitLines(buf)
             IN  [buffer |-> sp.buffer, out |-> LinesFrames(sp.lines)]

\* -------------------------------- executeQwenRequest, the streaming branch
\* The error-content frame the streaming catch writes.
FrameFailed == "Failed_stop"

\* A request with its streaming response in detail: the upstream body and
\* how much of it was delivered, the transformer's buffer and the frames it
\* pushed, the frames written to the response, safeWriteDone's flag, the
\* failure the response met, whether the caller has gone away, whether
\* cleanup has cleared the keepalive interval, and whether a keepalive
\* record was written after the caller had gone.
StreamReq ==
    NewReq @@ [upstream |-> <<>>, pos |-> 0, buffer |-> <<>>,
               xout |-> <<>>, res |-> <<>>, respondedDone |-> FALSE,
               failure |-> "none", clientGone |-> FALSE, cleaned |-> FALSE,
               lateKeepalive |-> FALSE]

\* createKeepAlive: cleanup.
cleanup(q) == [q EXCEPT !.cleaned = TRUE, !.respondedDone = TRUE]

\* The keepalive interval is armed: createKeepAlive has run (it follows
\* setSseHeaders) and cleanup has not.
KeepaliveArmed(q) == q.wantStream /\ q.headersSent /\ ~q.cleaned

\* The upstream call is pending or its body is being read.
UpstreamOpen(q) == q.pc \in {"dispatch", "piping"}

\* createKeepAlive: safeWriteDone.
safeWriteDone(q) ==
    IF q.respondedDone THEN q
    ELSE [q EXCEPT !.respondedDone = TRUE,
                   !.res = IF q.ended THEN q.res ELSE Append(q.res, FrameDone),
                   !.ended = TRUE]

\* startServer, for one request whose response is followed in detail.
StreamListen ==
    /\ reqs = <<>>
    /\ reqs' = <<StreamReq>>
    /\ lastOp' = Op("listen", NoIdentity, 0)
    /\ UNCHANGED <<now, poolVars>>

\* http.post of the streaming branch has settled: it rejected (the catch
\* writes an error frame and the sentinel and ends the response), or it
\* resolved with a body and the listeners and the pipe are set up.  The
\* object of the single-cookie mode has no markSuccess/markFailure: the
\* TypeError leaves executeQwenRequest and the handler's catch writes
\* nothing, the headers being sent.
StreamDispatched(r, outcome, body) ==
    /\ reqs # <<>>
    /\ reqs[r].pc = "dispatch"
    /\ reqs[r].wantStream
    /\ LET q == reqs[r]
           i == q.identity
       IN  IF i = Legacy
           THEN /\ reqs' = [reqs EXCEPT ![r] =
                       Failed([q EXCEPT !.failure =
                                 IF outcome = "ok" THEN "none"
                                 ELSE "dispatch"])]
                /\ UNCHANGED identities
           ELSE IF outcome = "ok"
           THEN /\ identities' = [identities EXCEPT ![i] = markSuccess(@)]
                /\ reqs' = [reqs EXCEPT ![r] =
                       [q EXCEPT !.pc = "piping", !.upstream = body]]
           ELSE /\ identities' = [identities EXCEPT ![i] =
                                    markFailure(@, "error")]
                /\ reqs' = [reqs EXCEPT ![r] =
                       Failed(cleanup([q EXCEPT
                          !.res = q.res \o <<FrameFailed, FrameDone>>,
                          !.ended = TRUE,
                          !.failure = "dispatch"]))]
    /\ lastOp' = ReqOp(r)
    /\ UNCHANGED <<now, currentIndex, initialized, refreshing,
                   refreshResults, exchangeOk, picks>>

\* upstream.data delivers its next k symbols as one chunk: transform runs
\* and what it pushes is piped to the response.
StreamChunk(r, k) ==
    /\ reqs # <<>>
    /\ reqs[r].pc = "piping"
    /\ reqs[r].pos + k <= Len(reqs[r].upstream)
    /\ LET q == reqs[r]
           t == transform(q.buffer, SubSeq(q.upstream, q.pos + 1, q.pos + k))
       IN  reqs' = [reqs EXCEPT ![r] =
             [q EXCEPT !.pos = q.pos + k,
                       !.buffer = t.buffer,
                       !.xout = q.xout \o t.out,
                       !.res = IF q.ended THEN q.res ELSE q.res \o t.out]]
    /\ lastOp' = ReqOp(r)
    /\ UNCHANGED <<now, poolVars>>

\* res.end() of safeWriteDone is followed by the 'finish' of the response,
\* whose listener runs cleanup; for a response whose caller had gone before
\* the listeners were registered, 'finish' may not be emitted.
Finished(q, finish) == IF finish THEN cleanup(q) ELSE q
FinishOutcomes(q) == IF q.clientGone THEN BOOLEAN ELSE {TRUE}

\* upstream.data 'end' after the whole body: safeWriteDone ('close' and the
\* transformer's 'end' follow and find respondedDone set).
StreamEnd(r) ==
    /\ reqs # <<>>
    /\ reqs[r].pc = "piping"
    /\ reqs[r].pos = Len(reqs[r].upstream)
    /\ \E finish \in FinishOutcomes(reqs[r]) :
          reqs' = [reqs EXCEPT ![r] =
             Finished([safeWriteDone(@) EXCEPT !.pc = "done"], finish)]
    /\ lastOp' = ReqOp(r)
    /\ UNCHANGED <<now, poolVars>>

\* upstream.data 'error' in the middle of the response: the listener marks
\* the failure; the 'close' of the destroyed stream runs safeWriteDone.
StreamError(r) ==
    /\ reqs # <<>>
    /\ reqs[r].pc = "piping"
    /\ identities' = [identities EXCEPT ![reqs[r].identity] =
                        markFailure(@, "error")]
    /\ \E finish \in FinishOutcomes(reqs[r]) :
          reqs' = [reqs EXCEPT ![r] =
             Finished([safeWriteDone(@) EXCEPT !.pc = "done",
                                               !.failure = "stream"],
                      finish)]
    /\ lastOp' = ReqOp(r)
    /\ UNCHANGED <<now, currentIndex, initialized, refreshing,
                   refreshResults, exchangeOk, picks>>

\* The caller goes away while the body is piped: the listener of req
\* 'close' runs upstream.data.destroy() and safeWriteDone, and the listener
\* of res 'close' runs cleanup.
StreamClientClose(r) ==
    /\ reqs # <<>>
    /\ reqs[r].pc = "piping"
    /\ ~reqs[r].clientGone
    /\ reqs' = [reqs EXCEPT ![r] =
          cleanup([safeWriteDone(@) EXCEPT !.pc = "done",
                                           !.clientGone = TRUE])]
    /\ lastOp' = Op("clientClose", r, 0)
    /\ UNCHANGED <<now, poolVars>>

\* The caller goes away while http.post is pending, or while a response
\* that the handler left open hangs: no listener of req 'close' or res
\* 'close' is registered (they are registered after http.post resolved,
\* lines 554-557), so nothing runs.
StreamClientGone(r) ==
    /\ reqs # <<>>
    /\ reqs[r].wantStream
    /\ reqs[r].headersSent
    /\ reqs[r].pc \in {"dispatch", "done"}
    /\ ~reqs[r].ended
    /\ ~reqs[r].clientGone
    /\ reqs' = [reqs EXCEPT ![r].clientGone = TRUE]
    /\ lastOp' = Op("clientClose", r, 0)
    /\ UNCHANGED <<now, poolVars>>

\* The keepalive interval fires: `: keepalive` is written unless the
\* response was ended.
StreamKeepAlive(r) ==
    /\ reqs # <<>>
    /\ KeepaliveArmed(reqs[r])
    /\ reqs' = [reqs EXCEPT ![r].lateKeepalive =
                    @ \/ (~reqs[r].ended /\ reqs[r].clientGone)]
    /\ lastOp' = Op("keepalive", r, 0)
    /\ UNCHANGED <<now, poolVars>>

\* SpecStream: one streaming request, with a pool of two cookies or in the
\* single-cookie mode, and every upstream body of up to MaxRecords records
\* cut into chunks in every way.
StreamInitialize == Initialize([1..2 -> ExchangeOutcomes(TokenExpsThree)])
StreamDoStart == \E hasToken \in BOOLEAN : ReqStart(1, TRUE, hasToken)
StreamDoTransformed ==
    \E o \in {"ok", "malformed", "nochat", "invalid"} : ReqTransformed(1, o)
StreamDoRejected == StreamDispatched(1, "error", <<>>)
StreamDoResolved == \E body \in Bodies : StreamDispatched(1, "ok", body)
StreamDoChunk == \E k \in 1..(MaxRecords * 5) : StreamChunk(1, k)
StreamDoEnd == StreamEnd(1)
StreamDoError == StreamError(1)
StreamDoClientClose == StreamClientClose(1)
StreamDoClientGone == StreamClientGone(1)
StreamDoKeepAlive == StreamKeepAlive(1)

NextStream ==
    \/ StreamInitialize
    \/ StreamListen
    \/ StreamDoStart
    \/ StreamDoTransformed
    \/ StreamDoRejected
    \/ StreamDoResolved
    \/ StreamDoChunk
    \/ StreamDoEnd
    \/ StreamDoError
    \/ StreamDoClientClose
    \/ StreamDoClientGone
    \/ StreamDoKeepAlive

SpecStream == Init /\ [][NextStream]_vars

\* SpecStreamFair: SpecStream in which every pending call settles and every
\* open upstream body is delivered, ends, fails or is closed.
SpecStreamFair == SpecStream /\ WF_vars(NextStream)

\* The number of terminal sentinels among frames.
DoneCount(frames) ==
    Cardinality({i \in 1..Len(frames) : frames[i] = FrameDone})

ErrorFrames == {FrameError, FrameFailed}

\* C15 (as stated): a streaming response of a pool identity that met a
\* failure after its headers were sent (a rejected dispatch or an upstream
\* stream error) carries, once the handler is through, an error-content
\* frame followed by the terminal sentinel.
C15_Original ==
    \A r \in 1..Len(reqs) :
        (/\ reqs[r].pc = "done"
         /\ reqs[r].headersSent
         /\ reqs[r].identity # Legacy
         /\ reqs[r].failure # "none")
        => \E i \in 1..(Len(reqs[r].res) - 1) :
              /\ reqs[r].res[i] \in ErrorFrames
              /\ reqs[r].res[i + 1] = FrameDone

\* C16 (as stated): the terminal sentinel is written to a streaming
\* response at most once.
C16_Original ==
    \A r \in 1..Len(reqs) : DoneCount(reqs[r].res) <= 1

\* C17 (as stated): a streaming response whose headers were sent eventually
\* has the terminal sentinel written and is ended.
C17_Original ==
    (reqs # <<>> /\ reqs[1].headersSent)
        ~> (/\ reqs # <<>>
            /\ reqs[1].ended
            /\ DoneCount(reqs[1].res) >= 1)

\* C18 (as stated): the transformer pushes no frame after a terminal
\* sentinel.
C18_Original ==
    \A r \in 1..Len(reqs) :
        \A i \in 1..Len(reqs[r].xout) :
            reqs[r].xout[i] = FrameDone => i = Len(reqs[r].xout)

\* C19 (as stated): for an upstream error record the transformer pushes one
\* error-content frame and one terminal sentinel, and nothing after them.
C19_Original ==
    \A r \in 1..Len(reqs) :
        \A i \in 1..Len(reqs[r].xout) :
            reqs[r].xout[i] = FrameError =>
                /\ Len(reqs[r].xout) = i + 1
                /\ reqs[r].xout[i + 1] = FrameDone

\* C20 (as stated): the body {content:"A"}, {content:"B", finish_reason:
\* "stop"}, [DONE], delivered completely in any chunks, makes the
\* transformer push the frame A, the final frame B and the sentinel.
C20_Original ==
    \A r \in 1..Len(reqs) :
        (/\ reqs[r].upstream = EncodeAll(<<"A", "B", "D">>)
         /\ reqs[r].pos = Len(reqs[r].upstream))
        => reqs[r].xout = <<FrameA, FrameBStop, FrameDone>>

\* ------------------------- the transformer on image records and long input
\* Further record kinds, all with choices[0].delta: P = {phase:"image_gen",
\* content:url1}, Q = {chat_type:"t2i", content:url1}, R = {phase:
\* "image_gen", content:url2}, S = {phase:"image_gen", content:url1,
\* status:"finished"}.  X is a block of BlockSize characters without a
\* newline, and Y the text `[DONE]` without a newline.  T is the content
\* record {content:"...[DONE]..."}, whose text holds the two symbols of
\* `[DONE]` between its own two halves.
ImageKinds == {"P", "Q", "R", "S"}
ImageHalf1 == [P |-> "P1", Q |-> "Q1", R |-> "R1", S |-> "S1"]
ImageHalf2 == [P |-> "P2", Q |-> "Q2", R |-> "R2", S |-> "S2"]
ImageUrl == [P |-> 1, Q |-> 1, R |-> 2, S |-> 1]
ImageFinished == [P |-> FALSE, Q |-> FALSE, R |-> FALSE, S |-> TRUE]
XfKinds == {"A"} \cup ImageKinds \cup {"X", "Y"}

EncodeXf(k) ==
    IF k = "X" THEN <<"X">>
    ELSE IF k = "Y" THEN <<"D1", "D2">>
    ELSE IF k = "T" THEN <<"d", "T1", "D1", "D2", "T2", "n", "n">>
    ELSE IF k \in ImageKinds
    THEN <<"d", ImageHalf1[k], ImageHalf2[k], "n", "n">>
    ELSE Encode(k)

RECURSIVE EncodeAllXf(_)
EncodeAllXf(recs) ==
    IF recs = <<>> THEN <<>>
    ELSE EncodeXf(Head(recs)) \o EncodeAllXf(Tail(recs))

BodiesXf ==
    {EncodeAllXf(recs) : recs \in UNION {[1..n -> XfKinds] :
                                            n \in 0..MaxRecordsXf}}

\* buffer.length: a block counts BlockSize characters, every other symbol
\* one.
RECURSIVE Size(_)
Size(buf) ==
    IF buf = <<>> THEN 0
    ELSE (IF Head(buf) = "X" THEN BlockSize ELSE 1) + Size(Tail(buf))

\* The frames of image records: the embedded image of a URL, without and
\* with finish_reason 'stop', and the final frame with empty content.
FrameImage == [u \in {1, 2} |-> IF u = 1 THEN "Img1" ELSE "Img2"]
FrameImageStop == [u \in {1, 2} |-> IF u = 1 THEN "Img1_stop" ELSE "Img2_stop"]
FrameStop == "_stop"
FrameT == "T"

\* The body of the for loop with sentImageUrls: the frames pushed for one
\* line and the set afterwards.
LineFramesSent_NoDedup(line, sent) ==
    LET dataStr == IF line # <<>> /\ Head(line) = "d" THEN Trim(Tail(line))
                   ELSE Trim(line)
    IN  IF Trim(line) = <<>> \/ dataStr = <<>>
        THEN [out |-> <<>>, sent |-> sent]
        ELSE IF \E k \in ImageKinds :
                   dataStr = <<ImageHalf1[k], ImageHalf2[k]>>
        THEN LET k == CHOOSE c \in ImageKinds :
                         dataStr = <<ImageHalf1[c], ImageHalf2[c]>>
                 u == ImageUrl[k]
             IN  [out |-> <<IF ImageFinished[k] THEN FrameImageStop[u]
                             ELSE FrameImage[u]>>,
                  sent |-> sent \cup {u}]
        ELSE IF dataStr = <<"T1", "D1", "D2", "T2">>
        THEN [out |-> <<FrameT>>, sent |-> sent]
        ELSE IF Head(dataStr) \in {ImageHalf1[k] : k \in ImageKinds} \cup {"T1"}
        THEN [out |-> <<>>, sent |-> sent]
        ELSE [out |-> LineFrames(line), sent |-> sent]

LineFramesSent(line, sent) ==
    LET dataStr == IF line # <<>> /\ Head(line) = "d" THEN Trim(Tail(line))
                   ELSE Trim(line)
    IN  IF Trim(line) = <<>> \/ dataStr = <<>>
        THEN [out |-> <<>>, sent |-> sent]
        ELSE IF \E k \in ImageKinds :
                   dataStr = <<ImageHalf1[k], ImageHalf2[k]>>
        THEN LET k == CHOOSE c \in ImageKinds :
                         dataStr = <<ImageHalf1[c], ImageHalf2[c]>>
                 u == ImageUrl[k]
             IN  IF u \notin sent
                 THEN [out |-> <<IF ImageFinished[k] THEN FrameImageStop[u]
                                 ELSE FrameImage[u]>>,
                       sent |-> sent \cup {u}]
                 ELSE [out |-> IF ImageFinished[k] THEN <<FrameStop>>
                               ELSE <<>>,
                       sent |-> sent]
        ELSE IF dataStr = <<"T1", "D1", "D2", "T2">>
        THEN [out |-> <<FrameT>>, sent |-> sent]
        ELSE IF Head(dataStr) \in {ImageHalf1[k] : k \in ImageKinds} \cup {"T1"}
        THEN [out |-> <<>>, sent |-> sent]
        ELSE [out |-> LineFrames(line), sent |-> sent]

RECURSIVE LinesFramesSent(_, _)
LinesFramesSent(lines, sent) ==
    IF lines = <<>> THEN [out |-> <<>>, sent |-> sent]
    ELSE LET h == LineFramesSent(Head(lines), sent)
             t == LinesFramesSent(Tail(lines), h.sent)
         IN  [out |-> h.out \o t.out, sent |-> t.sent]

\* transform(chunk) with sentImageUrls and the length of the buffer in
\* characters: the new buffer, the set and the frames pushed.
transformSent_NoCap(buffer, sent, chunk) ==
    LET buf == buffer \o chunk
    IN  IF IncludesDone(buf)
        THEN [buffer |-> <<>>, sent |-> sent, out |-> <<FrameDone>>]
        ELSE LET sp == SplitLines(buf)
                 fr == LinesFramesSent(sp.lines, sent)
             IN  [buffer |-> sp.buffer, sent |-> fr.sent, out |-> fr.out]

transformSent(buffer, sent, chunk) ==
    LET buf == buffer \o chunk
    IN  IF Size(buf) > MAX_BUFFER_SIZE
        THEN [buffer |-> <<>>, sent |-> sent, out |-> <<>>]
        ELSE IF IncludesDone(buf)
        THEN [buffer |-> <<>>, sent |-> sent, out |-> <<FrameDone>>]
        ELSE LET sp == SplitLines(buf)
                 fr == LinesFramesSent(sp.lines, sent)
             IN  [buffer |-> sp.buffer, sent |-> fr.sent, out |-> fr.out]

\* createQwenToOpenAIStreamTransformer(), for an upstream body that will be
\* written to it.
XfCreate(body) ==
    /\ reqs = <<>>
    /\ reqs' = <<[upstream |-> body, pos |-> 0, buffer |-> <<>>,
                  sentImageUrls |-> {}, xout |-> <<>>]>>
    /\ lastOp' = Op("create", NoIdentity, 0)
    /\ UNCHANGED <<now, poolVars>>

\* The next k symbols of the body are written to the transformer as one
\* chunk.
XfChunk(k) ==
    /\ reqs # <<>>
    /\ reqs[1].pos + k <= Len(reqs[1].upstream)
    /\ LET q == reqs[1]
           t == transformSent(q.buffer, q.sentImageUrls,
                              SubSeq(q.upstream, q.pos + 1, q.pos + k))
       IN  reqs' = <<[q EXCEPT !.pos = q.pos + k,
                               !.buffer = t.buffer,
                               !.sentImageUrls = t.sent,
                               !.xout = q.xout \o t.out]>>
    /\ lastOp' = Op("transform", NoIdentity, 0)
    /\ UNCHANGED <<now, poolVars>>

\* SpecXf: one transformer and every body of up to MaxRecordsXf records or
\* blocks, cut into chunks in every way.
XfDoCreate == \E body \in BodiesXf : XfCreate(body)
XfDoChunk == \E k \in 1..(MaxRecordsXf * 5) : XfChunk(k)
NextXf ==
    \/ XfDoCreate
    \/ XfDoChunk

SpecXf == Init /\ [][NextXf]_vars

\* SpecDone: one transformer and every body of up to MaxRecordsXf content
\* records, with and without the text [DONE] in their content, cut into
\* chunks in every way.
BodiesDone ==
    {EncodeAllXf(recs) : recs \in UNION {[1..n -> {"A", "T"}] :
                                            n \in 0..MaxRecordsXf}}
DoneDoCreate == \E body \in BodiesDone : XfCreate(body)
DoneDoChunk == \E k \in 1..(MaxRecordsXf * 7) : XfChunk(k)
NextDone ==
    \/ DoneDoCreate
    \/ DoneDoChunk

SpecDone == Init /\ [][NextDone]_vars

\* The number of embedded-image frames of URL u among frames.
ImageCount(frames, u) ==
    Cardinality({i \in 1..Len(frames) :
                    frames[i] \in {FrameImage[u], FrameImageStop[u]}})

XfWritten == SubSeq(reqs[1].upstream, reqs[1].pos + 1, reqs'[1].pos)

\* A body without a newline.
NoDelimiter(body) == \A i \in 1..Len(body) : body[i] # "n"

RECURSIVE RecordsOf(_)
RecordsOf(body) ==
    IF Len(body) < 5 THEN <<>>
    ELSE <<CHOOSE k \in RecordKinds : Half1[k] = body[2]>>
            \o RecordsOf(SubSeq(body, 6, Len(body)))

\* The frames a record yields when its line is decoded on its own.
RecordFrames(k) == LineFrames(<<"d", Half1[k], Half2[k]>>)

RECURSIVE ExpectedFrames(_)
ExpectedFrames(recs) ==
    IF recs = <<>> THEN <<>>
    ELSE RecordFrames(Head(recs)) \o ExpectedFrames(Tail(recs))

\* C23 (as stated): a body of content records (A and B), delivered
\* completely in any chunks, makes the transformer push exactly the frames
\* it pushes when the body arrives in one chunk.
C23_Original ==
    \A r \in 1..Len(reqs) :
        (/\ reqs[r].pc \in {"piping", "done"}
         /\ reqs[r].pos = Len(reqs[r].upstream)
         /\ \A i \in 1..Len(RecordsOf(reqs[r].upstream)) :
               RecordsOf(reqs[r].upstream)[i] \in {"A", "B"})
        => reqs[r].xout = transform(<<>>, reqs[r].upstream).out

\* C24 (as stated): a body that arrives whole in one chunk makes the
\* transformer push the frames of its records in the order of the records,
\* every record that yields content or a finish marker having its frame.
C24_Original ==
    [][\A r \in 1..Len(reqs) :
          (/\ Len(reqs') = Len(reqs)
           /\ reqs[r].pc = "piping"
           /\ reqs'[r].pc = "piping"
           /\ reqs[r].pos = 0
           /\ reqs'[r].pos = Len(reqs[r].upstream))
          => reqs'[r].xout = ExpectedFrames(RecordsOf(reqs[r].upstream))]_vars

\* C25 (as stated): once a streaming response is ended or its caller has
\* gone away, the keepalive interval is no longer armed and no keepalive
\* record is written.
C25_Original ==
    \A r \in 1..Len(reqs) :
        /\ (reqs[r].ended \/ reqs[r].clientGone) => ~KeepaliveArmed(reqs[r])
        /\ ~reqs[r].lateKeepalive

\* C26 (as stated): once the caller of a streaming request has gone away,
\* no upstream call of the request is pending and no upstream body is being
\* read.
C26_Original ==
    \A r \in 1..Len(reqs) : reqs[r].clientGone => ~UpstreamOpen(reqs[r])

\* -------------------------------------------- the handler's error answers
\* C27 (as stated): a request given up because its messages are missing, not
\* an array or empty, or because its translated payload fails the
\* structural check, is answered with a 4xx status and was never
\* dispatched.
C27_Original ==
    \A r \in 1..Len(reqs) :
        (reqs[r].pc = "done" /\ reqs[r].cause \in {"malformed", "invalid"})
        => /\ reqs[r].status \in 400..499
           /\ reqs[r].attempts = 0

\* A step gives request r up for a local reason: a failed authentication, a
\* malformed request or an invalid payload.
LocalFailure(r) ==
    /\ r \in 1..Len(reqs)
    /\ Len(reqs') = Len(reqs)
    /\ reqs[r].pc # "done"
    /\ reqs'[r].pc = "done"
    /\ reqs'[r].cause \in {"auth", "malformed", "invalid"}

\* The health accounting of the pool.
Health(ids) ==
    [i \in 1..Len(ids) |->
        <<ids[i].status, ids[i].failCount, ids[i].nextRetryAt,
          ids[i].lastError>>]

\* C28: a step that gives a request up because of a failed authentication, a
\* malformed request or an invalid payload leaves the status, failure
\* count, retry time and last error of every identity unchanged, and the
\* request was never dispatched and never entered the retry loop.
C28_LocalFailures ==
    [][\A r \in 1..NumReqs :
          LocalFailure(r) =>
             /\ Health(identities') = Health(identities)
             /\ reqs'[r].attempts = 0
             /\ ~reqs'[r].inLoop
             /\ reqs'[r].nextIdentity = NoIdentity]_vars

C28_Witness ==
    /\ reqs # <<>>
    /\ initialized
    /\ reqs[1].pc = "done" /\ reqs[1].cause = "invalid"
    /\ reqs[1].identity \in 1..Len(identities)
    /\ \E i \in 1..Len(identities) : identities[i].failCount > 0

\* C29 (as stated): when the session open of the first attempt fails for a
\* pool identity, a failure is reported on that identity: its failure count
\* grows.
C29_Original ==
    [][\A r \in 1..NumReqs :
          (/\ r \in 1..Len(reqs)
           /\ Len(reqs') = Len(reqs)
           /\ reqs[r].pc = "transform"
           /\ reqs'[r].cause = "nochat"
           /\ reqs[r].identity # Legacy)
          => identities'[reqs[r].identity].failCount
                > identities[reqs[r].identity].failCount]_vars

\* C30 (as stated): a non-streaming request of a pool identity given up
\* after its dispatch attempts failed is answered with a 5xx status.
C30_Original ==
    \A r \in 1..Len(reqs) :
        (/\ reqs[r].pc = "done"
         /\ ~reqs[r].wantStream
         /\ reqs[r].identity # Legacy
         /\ reqs[r].cause = "upstream")
        => reqs[r].status \in 500..599

\* ------------------------------------------------- the pool, further claims
\* The order of the statuses: Healthy < Degraded < Down.
Rank(status) ==
    IF status = HEALTHY THEN 0 ELSE IF status = DEGRADED THEN 1 ELSE 2

\* C38 (as stated): the status of a credential after a markFailure is at
\* least as bad as before it.
C38_Original ==
    [][\A i \in IdentityIds :
          (/\ Len(identities') = Len(identities)
           /\ lastOp'.op = "markFailure"
           /\ lastOp'.id = i)
          => Rank(identities'[i].status) >= Rank(identities[i].status)]_vars

\* Bookkeeping of the selections for SpecFair: the latest two results of
\* getAvailableIdentity, each with the identities that were available when
\* it was called.
TracePicks(ids, sel) ==
    (IF picks = <<>> THEN <<>> ELSE <<picks[Len(picks)]>>)
       \o <<[id |-> sel,
             avail |-> {i \in 1..Len(ids) : isAvailable(ids[i])}]>>

\* One call of identityPool.getAvailableIdentity(), as Select, with the
\* history kept by TracePicks.
SelectTraced ==
    /\ initialized
    /\ LET r == getAvailableIdentity(identities, currentIndex)
       IN  /\ currentIndex' = r.cur
           /\ lastOp' = Op("select", r.id, IF r.degraded THEN 1 ELSE 0)
           /\ picks' = TracePicks(identities, r.id)
    /\ UNCHANGED <<now, identities, initialized, refreshing,
                   refreshResults, exchangeOk, reqs>>

\* SpecFair: three cookies that all obtained a long-lived token, selections
\* with their history, failures up to the Degraded threshold and the clock
\* moving by whole cool-downs of a Degraded identity.
FairInitialize == Initialize([1..3 -> TokenExpsThree])
FairSelect == SelectTraced
FairMarkFailure ==
    \E i \in 1..Len(identities) : MarkIdentityFailure(i, MaxFailFair)
FairWait == Wait(DEGRADED_RETRY_DELAY, MaxTimeFair)
NextFair ==
    \/ FairInitialize
    \/ FairSelect
    \/ FairMarkFailure
    \/ FairWait

SpecFair == Init /\ [][NextFair]_vars

\* C37: after every selection from a non-empty available set currentIndex is
\* smaller than the size of that set.  (That the same credential can be
\* returned twice in a row while another available one is skipped is the
\* reachable state C37_Witness.)
C37_CursorBelowSize ==
    [][(/\ lastOp'.op = "select"
        /\ Len(availableIdentities(identities)) > 0)
       => /\ currentIndex' < Len(availableIdentities(identities))
          /\ currentIndex' =
                (currentIndex + 1) % Len(availableIdentities(identities))]_vars

\* Two consecutive selections between which the available set changed
\* returned the same credential although another one was available.
C37_Witness ==
    /\ lastOp.op = "select"
    /\ Len(picks) = 2
    /\ picks[1].id = picks[2].id
    /\ picks[1].avail # picks[2].avail
    /\ picks[1].id \in picks[1].avail
    /\ \E j \in picks[2].avail : j # picks[2].id

\* ------------------------------------- the pool methods statement by statement
\* Two requests run on the event loop.  A task's pc names the statement it
\* is about to run; a task gives up the event loop only at an await.  The
\* pool methods contain none (part_002:338-375): the awaits of a request are
\* before it starts ("idle") and its network call ("await").
Awaits_InsideMarkFailure == {"idle", "await", "status"}

Awaits == {"idle", "await"}

NewTask ==
    [pc |-> "idle", id |-> NoIdentity, list |-> <<>>, degraded |-> FALSE,
     start |-> <<>>]

\* The event loop runs task r: no other task is in the middle of a method.
CanRun(r) ==
    /\ reqs # <<>>
    /\ \A o \in 1..Len(reqs) : o # r => reqs[o].pc \in Awaits

AtomOp(r) == Op("task", r, 0)

AtomListen ==
    /\ reqs = <<>>
    /\ initialized
    /\ reqs' = [r \in 1..2 |-> NewTask]
    /\ lastOp' = Op("listen", NoIdentity, 0)
    /\ UNCHANGED <<now, poolVars>>

\* getAvailableIdentity, the filters (lines 344-351).
AtomFilter(r) ==
    /\ CanRun(r)
    /\ reqs[r].pc = "idle"
    /\ LET avail == availableIdentities(identities)
           all == allIdentities(identities)
           snap == [ids |-> identities, cur |-> currentIndex]
       IN  reqs' = [reqs EXCEPT ![r] =
             IF Len(avail) = 0 /\ Len(all) = 0
             THEN [NewTask EXCEPT !.start = snap]
             ELSE [pc |-> "pick", id |-> NoIdentity,
                   list |-> IF Len(avail) = 0 THEN all ELSE avail,
                   degraded |-> Len(avail) = 0, start |-> snap]]
    /\ lastOp' = AtomOp(r)
    /\ UNCHANGED <<now, poolVars>>

\* getAvailableIdentity, the indexing (lines 353, 357); line 353 returns.
AtomPick(r) ==
    /\ CanRun(r)
    /\ reqs[r].pc = "pick"
    /\ LET t == reqs[r]
       IN  reqs' = [reqs EXCEPT ![r] =
             [t EXCEPT !.id = t.list[(currentIndex % Len(t.list)) + 1],
                       !.pc = IF t.degraded THEN "await" ELSE "advance"]]
    /\ lastOp' = AtomOp(r)
    /\ UNCHANGED <<now, poolVars>>

\* getAvailableIdentity, the cursor (line 358), and the return; the request
\* goes on to its network call.
AtomAdvance(r) ==
    /\ CanRun(r)
    /\ reqs[r].pc = "advance"
    /\ currentIndex' = (currentIndex + 1) % Len(reqs[r].list)
    /\ reqs' = [reqs EXCEPT ![r].pc = "await"]
    /\ lastOp' = AtomOp(r)
    /\ UNCHANGED <<now, identities, initialized, refreshing, refreshResults,
                   exchangeOk, picks>>

\* The network call of the request settles.  It failed: markFailure, the
\* counter and the error (lines 228-229).  It succeeded: markSuccess, the
\* counter (lines 249-251).
AtomSettled(r, outcome) ==
    /\ CanRun(r)
    /\ reqs[r].pc = "await"
    /\ LET i == reqs[r].id
           snap == [ids |-> identities, cur |-> currentIndex]
       IN  /\ outcome = "error" => identities[i].failCount < MaxFailAtom
           /\ identities' = [identities EXCEPT ![i] =
                 IF outcome = "error"
                 THEN [@ EXCEPT !.failCount = @ + 1, !.lastError = "error"]
                 ELSE [@ EXCEPT !.failCount = Max(0, @ - 1)]]
           /\ reqs' = [reqs EXCEPT ![r].pc = IF outcome = "error"
                                             THEN "status" ELSE "recover",
                                   ![r].start = snap]
    /\ lastOp' = AtomOp(r)
    /\ UNCHANGED <<now, currentIndex, initialized, refreshing, refreshResults,
                   exchangeOk, picks>>

\* markFailure, the status and the retry time (lines 232-238), and the
\* return.
AtomStatus(r) ==
    /\ CanRun(r)
    /\ reqs[r].pc = "status"
    /\ LET i == reqs[r].id
           n == identities[i].failCount
       IN  identities' = [identities EXCEPT ![i] =
             IF n >= DOWN_THRESHOLD
             THEN [@ EXCEPT !.status = DOWN,
                            !.nextRetryAt = now + DOWN_RETRY_DELAY]
             ELSE IF n >= DEGRADED_THRESHOLD
             THEN [@ EXCEPT !.status = DEGRADED,
                            !.nextRetryAt = now + DEGRADED_RETRY_DELAY]
             ELSE @]
    /\ reqs' = [reqs EXCEPT ![r].pc = "idle"]
    /\ lastOp' = AtomOp(r)
    /\ UNCHANGED <<now, currentIndex, initialized, refreshing, refreshResults,
                   exchangeOk, picks>>

\* markSuccess, the recovery (lines 252-256).
AtomRecover(r) ==
    /\ CanRun(r)
    /\ reqs[r].pc = "recover"
    /\ LET i == reqs[r].id
       IN  identities' = [identities EXCEPT ![i] =
             IF @.status # HEALTHY /\ isAvailable(@)
             THEN [@ EXCEPT !.status = HEALTHY, !.nextRetryAt = Null]
             ELSE @]
    /\ reqs' = [reqs EXCEPT ![r].pc = "used"]
    /\ lastOp' = AtomOp(r)
    /\ UNCHANGED <<now, currentIndex, initialized, refreshing, refreshResults,
                   exchangeOk, picks>>

\* markSuccess, lastUsedAt (line 257), and the return.
AtomUsed(r) ==
    /\ CanRun(r)
    /\ reqs[r].pc = "used"
    /\ identities' = [identities EXCEPT ![reqs[r].id].lastUsedAt = now]
    /\ reqs' = [reqs EXCEPT ![r].pc = "idle"]
    /\ lastOp' = AtomOp(r)
    /\ UNCHANGED <<now, currentIndex, initialized, refreshing, refreshResults,
                   exchangeOk, picks>>

\* SpecAtomic: two cookies, every outcome of their exchanges, and two
\* requests whose pool calls run statement by statement.
AtomInitialize == Initialize([1..2 -> ExchangeOutcomes(TokenExpsThree)])
AtomDoFilter == \E r \in 1..2 : AtomFilter(r)
AtomDoPick == \E r \in 1..2 : AtomPick(r)
AtomDoAdvance == \E r \in 1..2 : AtomAdvance(r)
AtomDoSettled == \E r \in 1..2 : \E o \in {"ok", "error"} : AtomSettled(r, o)
AtomDoStatus == \E r \in 1..2 : AtomStatus(r)
AtomDoRecover == \E r \in 1..2 : AtomRecover(r)
AtomDoUsed == \E r \in 1..2 : AtomUsed(r)
NextAtomic ==
    \/ AtomInitialize
    \/ AtomListen
    \/ AtomDoFilter
    \/ AtomDoPick
    \/ AtomDoAdvance
    \/ AtomDoSettled
    \/ AtomDoStatus
    \/ AtomDoRecover
    \/ AtomDoUsed

SpecAtomic == Init /\ [][NextAtomic]_vars

\* The statements in the middle of a pool method.
MidMethod == {"pick", "advance", "status", "recover", "used"}

\* C35: while a request is in the middle of a pool method no other request
\* takes a step, every method that returns has had the effect of the whole
\* method on the pool as it was when the method began, and a request
\* suspended at a network call is in the middle of no method.
C35_AtomicUpdates ==
    [][(reqs # <<>> /\ reqs' # <<>>) =>
         \A r \in 1..Len(reqs) :
            LET t == reqs[r]
                u == reqs'[r]
            IN  /\ u # t =>
                      \A o \in 1..Len(reqs) :
                         o # r => reqs[o].pc \notin MidMethod
                /\ (t.pc \in {"pick", "advance"} /\ u.pc = "await") =>
                      LET g == getAvailableIdentity(t.start.ids, t.start.cur)
                      IN  /\ u.id = g.id
                          /\ currentIndex' = g.cur
                          /\ identities' = t.start.ids
                /\ (t.pc = "status" /\ u.pc = "idle") =>
                      /\ identities' = [t.start.ids EXCEPT ![t.id] =
                                           markFailure(@, "error")]
                      /\ currentIndex' = t.start.cur
                /\ (t.pc = "used" /\ u.pc = "idle") =>
                      /\ identities' = [t.start.ids EXCEPT ![t.id] =
                                           markSuccess(@)]
                      /\ currentIndex' = t.start.cur]_vars

\* A request is between the counter and the status of markFailure while the
\* other request, which holds the same identity, is suspended at its
\* network call.
C35_Witness ==
    /\ reqs # <<>>
    /\ reqs[1].pc = "status"
    /\ reqs[2].pc = "await"
    /\ reqs[1].id = reqs[2].id
    /\ identities[reqs[1].id].failCount = DEGRADED_THRESHOLD
    /\ identities[reqs[1].id].status = HEALTHY

\* ---------------------------------------- the transformer, further claims
\* The text `[DONE]` occurs in a body only inside the content of T records.
DoneOnlyInContent(body) ==
    \A i \in 1..Len(body) :
        body[i] = "D1" => i > 1 /\ body[i - 1] = "T1"

\* C39 (as stated): for a body without a sentinel record, in which the text
\* [DONE] occurs only inside the content of records, the transformer pushes
\* no terminal sentinel.
C39_Original ==
    (reqs # <<>> /\ DoneOnlyInContent(reqs[1].upstream))
    => \A i \in 1..Len(reqs[1].xout) : reqs[1].xout[i] # FrameDone


\* ---------------------------------------------------------------------
\* The pipe upstream.data -> transformer -> res (main.js:545-558).
\*
\* pending is the readable buffer of the transformer: the frames it has
\* pushed that are not yet written to the response.  paused is the
\* backpressure of the response: res.write returned false, pipe paused the
\* transformer and waits for 'drain'.  lost holds the frames handed to
\* res.write after res.end(): the write fails and they never reach the
\* caller.
PipeReq == StreamReq @@ [pending |-> <<>>, paused |-> FALSE, lost |-> <<>>]

\* pipe's 'data' listener: dest.write(frame) for each frame.
PipeWrite(q, out) ==
    IF q.ended THEN [q EXCEPT !.lost = q.lost \o out]
    ELSE [q EXCEPT !.res = q.res \o out]

PipeListen ==
    /\ reqs = <<>>
    /\ reqs' = <<PipeReq>>
    /\ lastOp' = Op("listen", NoIdentity, 0)
    /\ UNCHANGED <<now, poolVars>>

\* upstream.data delivers its next k symbols as one chunk: transform runs;
\* what it pushes is written to the response (res.write returning true or,
\* the socket of the caller being full, false) or, the transformer being
\* paused, stays in its readable buffer.
PipeChunk(r, k, full) ==
    /\ reqs # <<>>
    /\ reqs[r].pc = "piping"
    /\ reqs[r].pos + k <= Len(reqs[r].upstream)
    /\ LET q == reqs[r]
           t == transform(q.buffer, SubSeq(q.upstream, q.pos + 1, q.pos + k))
           q1 == [q EXCEPT !.pos = q.pos + k,
                           !.buffer = t.buffer,
                           !.xout = q.xout \o t.out]
       IN  reqs' = [reqs EXCEPT ![r] =
             IF q.paused
             THEN [q1 EXCEPT !.pending = q.pending \o t.out]
             ELSE [PipeWrite(q1, t.out) EXCEPT
                      !.paused = full /\ t.out # <<>>]]
    /\ lastOp' = ReqOp(r)
    /\ UNCHANGED <<now, poolVars>>

\* res 'drain': pipe resumes the transformer, whose buffered frames flow to
\* res.write until it returns false again (after j frames) or the buffer is
\* empty.
PipeDrain(r, j) ==
    /\ reqs # <<>>
    /\ reqs[r].paused
    /\ j <= Len(reqs[r].pending)
    /\ LET q == reqs[r]
       IN  reqs' = [reqs EXCEPT ![r] =
             [PipeWrite(q, SubSeq(q.pending, 1, j)) EXCEPT
                 !.pending = SubSeq(q.pending, j + 1, Len(q.pending)),
                 !.paused = j < Len(q.pending)]]
    /\ lastOp' = Op("drain", r, 0)
    /\ UNCHANGED <<now, poolVars>>

\* upstream.data 'end' after the whole body was handed to the transformer:
\* safeWriteDone.
PipeEnd(r) ==
    /\ reqs # <<>>
    /\ reqs[r].pc = "piping"
    /\ reqs[r].pos = Len(reqs[r].upstream)
    /\ reqs' = [reqs EXCEPT ![r] =
          cleanup([safeWriteDone(@) EXCEPT !.pc = "done"])]
    /\ lastOp' = ReqOp(r)
    /\ UNCHANGED <<now, poolVars>>

\* SpecPipe: one streaming request of a pool of one cookie, every upstream
\* body of up to MaxRecords records cut into chunks in every way, and a
\* caller that reads at any pace.
PipeInitialize == Initialize([1..1 -> TokenExpsThree])
PipeDoStart == ReqStart(1, TRUE, TRUE)
PipeDoTransformed == ReqTransformed(1, "ok")
PipeDoResolved == \E body \in Bodies : StreamDispatched(1, "ok", body)
PipeDoChunk ==
    \E k \in 1..(MaxRecords * 5), full \in BOOLEAN : PipeChunk(1, k, full)
PipeDoDrain == \E j \in 0..MaxRecords : PipeDrain(1, j)
PipeDoEnd == PipeEnd(1)

NextPipe ==
    \/ PipeInitialize
    \/ PipeListen
    \/ PipeDoStart
    \/ PipeDoTransformed
    \/ PipeDoResolved
    \/ PipeDoChunk
    \/ PipeDoDrain
    \/ PipeDoEnd

SpecPipe == Init /\ [][NextPipe]_vars

\* C40: every frame the transformer produces is written to the caller
\* before the response is ended: while the transformer holds frames that
\* are not yet written, the sentinel is not written and the response is not
\* ended, and no frame is handed to the response after it has ended.
C40_Original ==
    \A r \in 1..Len(reqs) :
        (reqs[r].wantStream /\ reqs[r].ended /\ reqs[r].failure = "none"
             /\ ~reqs[r].clientGone)
        => /\ reqs[r].pending = <<>>
           /\ reqs[r].lost = <<>>


\* ---------------------------------------------------------------------
\* collectOpenAICompletionFromSSE (lib/transformers.js:185-255).
\*
\* A content string is the sequence of its pieces.

\* delta.content of a frame of the transformer.
ContentOf(frame) ==
    IF frame = FrameDone THEN <<>>
    ELSE IF frame = FrameA THEN <<"A">>
    ELSE IF frame = FrameBStop THEN <<"B">>
    ELSE IF frame = FrameError THEN <<"Error">>
    ELSE <<"raw">>

RECURSIVE FramesContent(_)
FramesContent(frames) ==
    IF frames = <<>> THEN <<>>
    ELSE ContentOf(Head(frames)) \o FramesContent(Tail(frames))

\* JSON.parse(payload) and pickContentFromQwen, or the catch for a payload
\* that is not JSON.
pickContentFromQwen(payload) ==
    IF payload = <<"E1", "E2">> THEN <<"Error">>
    ELSE IF payload = <<"A1", "A2">> THEN <<"A">>
    ELSE IF payload = <<"B1", "B2">> THEN <<"B">>
    ELSE IF payload = <<>> \/ Head(payload) \in {Half1[k] : k \in JsonKinds}
    THEN <<>>
    ELSE <<"raw">>

\* onData: the while loop over the lines of remainder.
RECURSIVE onDataLoop(_, _)
onDataLoop(remainder, content) ==
    IF ~IncludesN(remainder)
    THEN [remainder |-> remainder, content |-> content, resolved |-> FALSE]
    ELSE LET idx == CHOOSE j \in 1..Len(remainder) :
                       /\ remainder[j] = "n"
                       /\ \A m \in 1..(j - 1) : remainder[m] # "n"
             line == SubSeq(remainder, 1, idx - 1)
             rest == SubSeq(remainder, idx + 1, Len(remainder))
             trimmed == Trim(line)
         IN  IF trimmed = <<>> THEN onDataLoop(rest, content)
             ELSE IF trimmed = <<"d", "D1", "D2">>
             THEN [remainder |-> rest, content |-> content,
                   resolved |-> TRUE]
             ELSE IF Head(trimmed) = "d"
             THEN onDataLoop(rest,
                             content \o pickContentFromQwen(Tail(trimmed)))
             ELSE onDataLoop(rest, content)

onData(remainder, content, buf) == onDataLoop(remainder \o buf, content)

\* The aggregator is created for an upstream body, and next to it the
\* stream transformer that is fed the same chunks.
AggCreate(body) ==
    /\ reqs = <<>>
    /\ reqs' = <<[upstream |-> body, pos |-> 0, remainder |-> <<>>,
                  content |-> <<>>, resolved |-> FALSE,
                  buffer |-> <<>>, xout |-> <<>>]>>
    /\ lastOp' = Op("create", NoIdentity, 0)
    /\ UNCHANGED <<now, poolVars>>

\* readable 'data': the next k symbols of the body as one chunk.  After
\* the sentinel the readable is destroyed and delivers nothing more.
AggChunk(k) ==
    /\ reqs # <<>>
    /\ ~reqs[1].resolved
    /\ reqs[1].pos + k <= Len(reqs[1].upstream)
    /\ LET q == reqs[1]
           chunk == SubSeq(q.upstream, q.pos + 1, q.pos + k)
           a == onData(q.remainder, q.content, chunk)
           t == transform(q.buffer, chunk)
       IN  reqs' = <<[q EXCEPT !.pos = q.pos + k,
                               !.remainder = a.remainder,
                               !.content = a.content,
                               !.resolved = a.resolved,
                               !.buffer = t.buffer,
                               !.xout = q.xout \o t.out]>>
    /\ lastOp' = Op("data", NoIdentity, 0)
    /\ UNCHANGED <<now, poolVars>>

\* readable 'end' / 'close': finalize.
AggEnd ==
    /\ reqs # <<>>
    /\ ~reqs[1].resolved
    /\ reqs[1].pos = Len(reqs[1].upstream)
    /\ reqs' = <<[reqs[1] EXCEPT !.resolved = TRUE]>>
    /\ lastOp' = Op("end", NoIdentity, 0)
    /\ UNCHANGED <<now, poolVars>>

\* SpecAgg: every upstream body of up to MaxRecords records, cut into
\* chunks in every way, read by the aggregator and by the transformer.
AggDoCreate == \E body \in Bodies : AggCreate(body)
AggDoChunk == \E k \in 1..(MaxRecords * 5) : AggChunk(k)
NextAgg ==
    \/ AggDoCreate
    \/ AggDoChunk
    \/ AggEnd

SpecAgg == Init /\ [][NextAgg]_vars

\* C34: the content string the aggregator returns equals the in-order
\* concatenation of the content of the frames the stream transformer emits
\* for the same stream.
C34_Original ==
    (reqs # <<>> /\ reqs[1].resolved)
    => reqs[1].content = FramesContent(reqs[1].xout)


\* ---------------------------------------------------------------------
\* The request translator (main.js:104-107, 135-154, 187-373).
\*
\* A model name is a base name and a suffix.  The content of a message is a
\* text or a list of parts: possibly a text part, and n image parts; image
\* j of message i has the URL <<i, j>>.  A size `WxH` is the pair of its
\* numbers and a ratio `a:b` the pair of its numbers.  A field that is
\* undefined is a field the record does not have.
Suffixes == {"", "-search", "-thinking", "-image", "-image_edit", "-video"}
BaseModel == "qwen3-max"
VISION_FALLBACK_MODEL == "qwen3-vl-plus"
NoFallback == ""
NoSize == <<>>

TextContent == [kind |-> "text", text |-> TRUE, n |-> 0]
Contents(role) ==
    {TextContent} \cup
    (IF role = "user"
     THEN [kind : {"parts"}, text : BOOLEAN, n : 0..MaxImages]
     ELSE {})
Messages ==
    UNION {[role : {r}, content : Contents(r)] : r \in {"user", "assistant"}}
MessageLists == UNION {[1..n -> Messages] : n \in 0..MaxMsgs}

\* hasImagesInMessage
hasImagesInMessage(message) ==
    message.content.kind = "parts" /\ message.content.n > 0

\* The image parts of message i, in order.
ImagesOf(messages, i) ==
    IF messages[i].content.kind = "parts"
    THEN [j \in 1..messages[i].content.n |-> <<i, j>>]
    ELSE <<>>

\* Array.prototype.slice(-3)
SliceLast3(seq) ==
    IF Len(seq) <= 3 THEN seq ELSE SubSeq(seq, Len(seq) - 2, Len(seq))

\* extractImagesFromHistory(messages.slice(0, last)), texts holding no
\* markdown image.
RECURSIVE HistoryImages(_, _)
HistoryImages(messages, last) ==
    IF last = 0 THEN <<>>
    ELSE HistoryImages(messages, last - 1)
            \o (IF messages[last].role = "user"
                THEN ImagesOf(messages, last) ELSE <<>>)
extractImagesFromHistory(messages, last) ==
    SliceLast3(HistoryImages(messages, last))

\* calculateAspectRatio
RECURSIVE gcd(_, _)
gcd(a, b) == IF b = 0 THEN a ELSE gcd(b, a % b)
calculateAspectRatio_NoReduce(size) ==
    IF size[1] = 0 \/ size[2] = 0 THEN <<1, 1>> ELSE size
calculateAspectRatio(size) ==
    LET w == size[1]
        h == size[2]
    IN  IF w = 0 \/ h = 0 THEN <<1, 1>>
        ELSE LET d == gcd(w, h) IN <<w \div d, h \div d>>

\* sizeMap
sizeMap ==
    (<<256, 256>> :> <<1, 1>>) @@ (<<512, 512>> :> <<1, 1>>) @@
    (<<1024, 1024>> :> <<1, 1>>) @@ (<<1792, 1024>> :> <<16, 9>>) @@
    (<<1024, 1792>> :> <<9, 16>>) @@ (<<2048, 2048>> :> <<1, 1>>) @@
    (<<1152, 768>> :> <<3, 2>>) @@ (<<768, 1152>> :> <<2, 3>>)

\* The index of the last user message, or 0.
LastUser(messages) ==
    IF \E i \in 1..Len(messages) : messages[i].role = "user"
    THEN CHOOSE i \in 1..Len(messages) :
            /\ messages[i].role = "user"
            /\ \A j \in (i + 1)..Len(messages) : messages[j].role # "user"
    ELSE 0

\* user_action: msg.role === 'user' ? 'chat' : undefined
userAction_Undefined(role) == [x \in {} |-> "chat"]
userAction(role) ==
    IF role = "user" THEN [user_action |-> "chat"] ELSE [x \in {} |-> "chat"]

\* The single message of the image modes.
ImageModeMessage(qwenModel, files, chatType) ==
    [fid |-> "uuid", role |-> "user", content |-> "text",
     user_action |-> "chat", files |-> files, timestamp |-> "now",
     models |-> <<qwenModel>>, chat_type |-> chatType]

\* One message of the default branch.
TransformedMessage(messages, i, base, chat_type) ==
    LET msg == messages[i]
        parts == msg.role = "user" /\ msg.content.kind = "parts"
        files == IF parts THEN ImagesOf(messages, i) ELSE <<>>
    IN  [fid |-> "uuid", role |-> msg.role,
         content |-> IF msg.content.text THEN "text" ELSE "",
         files |-> files, timestamp |-> "now",
         models |-> <<base>>,
         chat_type |-> IF files # <<>> THEN "t2t" ELSE chat_type]
        @@ userAction(msg.role)

Thrown(message, opened) ==
    [outcome |-> "throw", error |-> message, opened |-> opened]

\* transformOpenAIRequestToQwen; chatOk is the outcome of createNewChat.
transformOpenAIRequestToQwen(openAIRequest, fallback, chatOk) ==
    LET messages == openAIRequest.messages
        suffix == openAIRequest.model.suffix
        base == openAIRequest.model.base
        hasImages == \E i \in 1..Len(messages) :
                        hasImagesInMessage(messages[i])
        chat_type == IF suffix = "-image" THEN "t2i"
                     ELSE IF suffix = "-image_edit" THEN "image_edit"
                     ELSE IF suffix = "-video" THEN "t2v"
                     ELSE "t2t"
        usedFallback ==
            /\ hasImages
            /\ suffix \notin {"-image", "-image_edit", "-video"}
            /\ fallback # NoFallback
        qwenModel == IF usedFallback THEN fallback ELSE base
        u == LastUser(messages)
        done(request) ==
            [outcome |-> "ok", request |-> request, chatId |-> "chat",
             usedFallback |-> usedFallback,
             opened |-> <<qwenModel, chat_type>>]
    IN  IF messages = <<>> THEN Thrown("empty", <<>>)
        ELSE IF ~chatOk THEN Thrown("nochat", <<>>)
        ELSE IF chat_type = "image_edit"
        THEN IF u = 0 THEN Thrown("nouser", <<qwenModel, chat_type>>)
             ELSE LET allImages ==
                         ImagesOf(messages, u)
                           \o extractImagesFromHistory(messages,
                                                       Len(messages) - 1)
                      files == SliceLast3(allImages)
                  IN  done([chat_id |-> "chat", model |-> qwenModel,
                            messages |->
                               <<ImageModeMessage(qwenModel, files,
                                    IF files # <<>> THEN "image_edit"
                                    ELSE "t2i")>>])
        ELSE IF chat_type = "t2i"
        THEN IF u = 0 THEN Thrown("nouser", <<qwenModel, chat_type>>)
             ELSE LET openAISize == IF openAIRequest.size = NoSize
                                    THEN <<1024, 1024>>
                                    ELSE openAIRequest.size
                  IN  done([chat_id |-> "chat", model |-> qwenModel,
                            size |-> IF openAISize \in DOMAIN sizeMap
                                     THEN sizeMap[openAISize]
                                     ELSE calculateAspectRatio(openAISize),
                            messages |->
                               <<ImageModeMessage(qwenModel, <<>>, "t2i")>>])
        ELSE done([chat_id |-> "chat", model |-> base,
                   messages |->
                      [i \in 1..Len(messages) |->
                          TransformedMessage(messages, i, base, chat_type)]])

\* validateQwenRequest
Truthy(m, field) == field \in DOMAIN m /\ m[field] # ""
validateQwenRequest(request) ==
    /\ Truthy(request, "chat_id")
    /\ "messages" \in DOMAIN request
    /\ \A i \in 1..Len(request.messages) :
          LET m == request.messages[i]
          IN  /\ Truthy(m, "fid")
              /\ Truthy(m, "role")
              /\ "content" \in DOMAIN m
              /\ m.role = "user"
                 => /\ Truthy(m, "user_action")
                    /\ Truthy(m, "timestamp")
                    /\ "models" \in DOMAIN m

\* The handler's call of transformOpenAIRequestToQwen (main.js:671).
Translate(openAIRequest, fallback, chatOk) ==
    /\ reqs = <<>>
    /\ reqs' = <<[openAIRequest |-> openAIRequest, fallback |-> fallback,
                  result |-> transformOpenAIRequestToQwen(
                                 openAIRequest, fallback, chatOk)]>>
    /\ lastOp' = Op("translate", NoIdentity, 0)
    /\ UNCHANGED <<now, poolVars>>

\* SpecTranslate: every request of up to MaxMsgs messages with up to
\* MaxImages images each, in every mode, with and without a fallback
\* model, the session opening or not.
TranslateSizes == {NoSize, <<1792, 1024>>}
TranslateDoRequest ==
    /\ reqs = <<>>
    /\ \E messages \in MessageLists, suffix \in Suffixes,
          size \in TranslateSizes,
          fallback \in {NoFallback, VISION_FALLBACK_MODEL},
          chatOk \in BOOLEAN :
          Translate([model |-> [base |-> BaseModel, suffix |-> suffix],
                     messages |-> messages, size |-> size],
                    fallback, chatOk)

SpecTranslate == Init /\ [][TranslateDoRequest]_vars

Translated == reqs # <<>> /\ reqs[1].result.outcome = "ok"

\* C31: the payload transformOpenAIRequestToQwen produces for a request
\* with a non-empty list of messages, in any mode, for which the session
\* opens, is accepted by validateQwenRequest.
C31_TranslateThenValidate ==
    Translated => validateQwenRequest(reqs[1].result.request)

C31_Witness ==
    /\ Translated
    /\ Len(reqs[1].openAIRequest.messages) = MaxMsgs
    /\ reqs[1].openAIRequest.model.suffix = ""
    /\ \E i \in 1..MaxMsgs :
          /\ reqs[1].openAIRequest.messages[i].role = "user"
          /\ reqs[1].openAIRequest.messages[i].content.kind = "parts"
          /\ ~reqs[1].openAIRequest.messages[i].content.text
    /\ \E i \in 1..MaxMsgs :
          reqs[1].openAIRequest.messages[i].role = "assistant"


\* SpecSize: a text-to-image request with every size of dimensions up to
\* MaxDim, every listed size, the size 300x200 and no size.
ListedSizes == DOMAIN sizeMap
Sizes ==
    ListedSizes \cup {<<w, h>> : w, h \in 0..MaxDim}
                \cup {<<300, 200>>, NoSize}
SizeDoRequest ==
    \E size \in Sizes :
       Translate([model |-> [base |-> BaseModel, suffix |-> "-image"],
                  messages |-> <<[role |-> "user",
                                  content |-> TextContent]>>,
                  size |-> size],
                 VISION_FALLBACK_MODEL, TRUE)

SpecSize == Init /\ [][SizeDoRequest]_vars

Coprime(a, b) == \A d \in 2..a : ~(a % d = 0 /\ b % d = 0)

\* C32: in text-to-image mode a listed size maps to its entry of the table
\* (1792x1024 to 16:9), and an unlisted size WxH maps to the reduced ratio
\* W/gcd : H/gcd (300x200 to 3:2): the ratio of the size, in lowest terms.
\* A size with a zero dimension maps to 1:1, as a request without size.
C32_AspectRatio ==
    (Translated /\ reqs[1].openAIRequest.model.suffix = "-image")
    => LET size == reqs[1].openAIRequest.size
           ratio == reqs[1].result.request.size
       IN  /\ size = <<1792, 1024>> => ratio = <<16, 9>>
           /\ size = <<300, 200>> => ratio = <<3, 2>>
           /\ IF size = NoSize THEN ratio = <<1, 1>>
              ELSE IF size \in ListedSizes THEN ratio = sizeMap[size]
              ELSE IF size[1] = 0 \/ size[2] = 0 THEN ratio = <<1, 1>>
              ELSE /\ ratio[1] * size[2] = ratio[2] * size[1]
                   /\ ratio[1] > 0
                   /\ Coprime(ratio[1], ratio[2])

C32_Witness ==
    /\ Translated
    /\ reqs[1].openAIRequest.model.suffix = "-image"
    /\ reqs[1].openAIRequest.size = <<300, 200>>
    /\ reqs[1].result.request.size = <<3, 2>>

\* The vision fallback applies: an image part, no image-mode suffix, a
\* fallback model configured.
FallbackCase ==
    /\ Translated
    /\ \E i \in 1..Len(reqs[1].openAIRequest.messages) :
          hasImagesInMessage(reqs[1].openAIRequest.messages[i])
    /\ reqs[1].openAIRequest.model.suffix
          \notin {"-image", "-image_edit", "-video"}
    /\ reqs[1].fallback # NoFallback

\* C33: when the vision fallback applies, the fallback model is the model
\* of the session that is opened, of the payload and of the models of each
\* message, and usedFallback is reported.
C33_Original ==
    FallbackCase
    => LET result == reqs[1].result
       IN  /\ result.usedFallback
           /\ result.opened[1] = reqs[1].fallback
           /\ result.request.model = reqs[1].fallback
           /\ \A i \in 1..Len(result.request.messages) :
                 result.request.messages[i].models = <<reqs[1].fallback>>

\* The images sent upstream: the files of the payload's messages.
SentImages(request) ==
    UNION {{request.messages[i].files[j] :
               j \in 1..Len(request.messages[i].files)} :
           i \in 1..Len(request.messages)}

\* C36: in image-edit mode every image attached to the current (last user)
\* message is among the images sent upstream, whatever the history holds.
C36_Original ==
    (Translated /\ reqs[1].openAIRequest.model.suffix = "-image_edit")
    => LET messages == reqs[1].openAIRequest.messages
           u == LastUser(messages)
       IN  \A j \in 1..Len(ImagesOf(messages, u)) :
              <<u, j>> \in SentImages(reqs[1].result.request)
====
